---- MODULE Spec2Model ----
(***************************************************************************)
(* State-machine model of the Shramic Networks CMS (src/app.py): the nine  *)
(* tables, the session cookie, the public and admin route handlers, the    *)
(* settings helpers, slug creation, the search endpoint and the seed       *)
(* routine.  Every handler is one atomic action (one HTTP request).        *)
(***************************************************************************)
EXTENDS Integers, Sequences, FiniteSets, TLC

(***************************************************************************)
(* Values.  A Python str is a sequence of one-character strings; T(s) is   *)
(* a text whose characters no operation of the program inspects.  None is  *)
(* Python's None / SQL NULL for text, NullInt for integers and datetimes.  *)
(***************************************************************************)
None == <<"<None>">>
NullInt == -1
T(s) == <<s>>
Empty == <<>>

\* Python truthiness of an optional text: None and '' are falsy.
Truthy(text) == text # None /\ text # Empty

UpperLetters == {"A", "B"}
LowerLetters == {"a", "b", "c"}
Digits == {"0", "1", "2", "3", "4", "5", "6", "7", "8", "9"}
Whitespace == {" "}

\* str.lower() on one character.
LowerChar(c) == CASE c = "A" -> "a" [] c = "B" -> "b" [] OTHER -> c

\* str.lower()
lower(text) == [i \in DOMAIN text |-> LowerChar(text[i])]

\* str.strip(): leading and trailing whitespace removed.
RECURSIVE lstrip(_)
lstrip(text) ==
    IF text # Empty /\ Head(text) \in Whitespace THEN lstrip(Tail(text)) ELSE text

RECURSIVE rstrip(_)
rstrip(text) ==
    IF text # Empty /\ text[Len(text)] \in Whitespace
    THEN rstrip(SubSeq(text, 1, Len(text) - 1))
    ELSE text

strip(text) == rstrip(lstrip(text))

\* The regular-expression classes \w and \s of Python's re module.
IsWordChar(c) == c \in UpperLetters \cup LowerLetters \cup Digits \cup {"_"}
IsSpaceChar(c) == c \in Whitespace

\* re.sub(r'[^\w\s-]', '', text)
KeepSlugChar(c) == IsWordChar(c) \/ IsSpaceChar(c) \/ c = "-"
RemoveNonSlugChars(text) == SelectSeq(text, KeepSlugChar)

\* re.sub(r'[-\s]+', '-', text): every maximal run of hyphens and whitespace
\* becomes one hyphen.
IsSeparator(c) == c = "-" \/ IsSpaceChar(c)
RECURSIVE CollapseSeparators(_)
CollapseSeparators(text) ==
    IF text = Empty THEN Empty
    ELSE IF IsSeparator(Head(text))
         THEN IF Len(text) > 1 /\ IsSeparator(text[2])
              THEN CollapseSeparators(Tail(text))
              ELSE <<"-">> \o CollapseSeparators(Tail(text))
         ELSE <<Head(text)>> \o CollapseSeparators(Tail(text))

\* create_slug(text); text is a str (None raises before this is reached).
\* (variant create_slug_no_collapse: without the second re.sub.)
create_slug_no_collapse(text) == RemoveNonSlugChars(strip(lower(text)))
create_slug(text) == CollapseSeparators(RemoveNonSlugChars(strip(lower(text))))

\* SQLite's LIKE as SQLAlchemy's contains() uses it: '%' matches any run of
\* characters, '_' any one character, ASCII letters match regardless of case.
RECURSIVE SqliteLike(_, _)
SqliteLike(pattern, text) ==
    IF pattern = Empty THEN text = Empty
    ELSE IF Head(pattern) = "%"
         THEN SqliteLike(Tail(pattern), text)
              \/ (text # Empty /\ SqliteLike(pattern, Tail(text)))
         ELSE /\ text # Empty
              /\ (Head(pattern) = "_" \/ LowerChar(Head(pattern)) = LowerChar(Head(text)))
              /\ SqliteLike(Tail(pattern), Tail(text))

\* column.contains(query): column LIKE '%' || query || '%'; NULL never matches.
contains(column, query) ==
    column # None /\ SqliteLike(<<"%">> \o query \o <<"%">>, column)

\* int(text) as request.form.get(..., type=int) applies it: the digits' value, or
\* NullInt when the text is no decimal number (the ValueError the getter swallows).
DigitValue(c) ==
    CASE c = "0" -> 0 [] c = "1" -> 1 [] c = "2" -> 2 [] c = "3" -> 3 [] c = "4" -> 4
      [] c = "5" -> 5 [] c = "6" -> 6 [] c = "7" -> 7 [] c = "8" -> 8 [] c = "9" -> 9

RECURSIVE DigitsValue(_)
DigitsValue(text) ==
    IF text = Empty THEN 0
    ELSE 10 * DigitsValue(SubSeq(text, 1, Len(text) - 1)) + DigitValue(text[Len(text)])

IsNumber(text) == text # None /\ text # Empty /\ \A i \in DOMAIN text : text[i] \in Digits
int(text) == IF IsNumber(text) THEN DigitsValue(text) ELSE NullInt


(***************************************************************************)
(* State: the nine tables of the relational store (each a set of rows),    *)
(* the browser's session cookie, the wall clock datetime.utcnow() reads,   *)
(* the request last handled with the response it was given, and the        *)
(* requests other threads of the server are in the middle of handling      *)
(* (each with the rows it has loaded into its own database session).       *)
(***************************************************************************)
VARIABLES User, PageSection, BlogCategory, BlogPost, Testimonial, TeamMember,
          Statistic, Settings, Feature, session, now, request, response, pending

tables == <<User, PageSection, BlogCategory, BlogPost, Testimonial, TeamMember,
            Statistic, Settings, Feature>>
vars == <<User, PageSection, BlogCategory, BlogPost, Testimonial, TeamMember,
          Statistic, Settings, Feature, session, now, request, response, pending>>

\* Bounds of the model.
MaxNow == 1
MaxViews == 2
MaxStoreRows == 5

Ids(table) == {r.id : r \in table}
Max(S) == CHOOSE m \in S : \A x \in S : x <= m
Min(S) == CHOOSE m \in S : \A x \in S : m <= x

\* The rows in the tables an admin can add to without limit; a request that
\* inserts one is taken only while these hold fewer than MaxStoreRows rows.
StoreRows ==
    Cardinality(PageSection) + Cardinality(BlogPost) + Cardinality(Testimonial)
    + Cardinality(TeamMember) + Cardinality(Statistic)
HasRoom == StoreRows < MaxStoreRows

\* The id SQLite gives an inserted row of an INTEGER PRIMARY KEY table: one more
\* than the largest id in the table.
NextId(table) == IF table = {} THEN 1 ELSE Max(Ids(table)) + 1

\* Model.query.get(id): the row with that primary key; NoRow stands for None.
NoRow == [id |-> NullInt]
\* (variant get_or_first: the first row of the table when no row has the key.)
get_or_first(table, id) ==
    IF id \in Ids(table) THEN CHOOSE r \in table : r.id = id
    ELSE IF table = {} THEN NoRow
    ELSE CHOOSE r \in table : \A o \in table : r.id <= o.id
get(table, id) == IF id \in Ids(table) THEN CHOOSE r \in table : r.id = id ELSE NoRow

\* query.first() without ORDER BY: SQLite scans in rowid order.
first(rows) == IF rows = {} THEN NoRow ELSE CHOOSE r \in rows : r.id = Min(Ids(rows))

\* werkzeug's generate_password_hash / check_password_hash: the hash admits exactly
\* the password it was made from.
generate_password_hash(password) == <<"hash">> \o password
\* (variant check_any_password: a check every password passes.)
check_any_password(hash, password) == TRUE
check_password_hash(hash, password) == hash = <<"hash">> \o password

\* Responses: redirect(url_for(endpoint)), render_template(template, context) with
\* a status code, jsonify(results).  flash is the category flashed, "" if none;
\* context is the rows handed to the template, as <<table, id>> pairs.
Redirect(endpoint, flash) ==
    [status |-> 302, location |-> endpoint, template |-> "", flash |-> flash,
     context |-> {}, json |-> {}]
Render(template, status, flash, context) ==
    [status |-> status, location |-> "", template |-> template, flash |-> flash,
     context |-> context, json |-> {}]
Jsonify(results, status) ==
    [status |-> status, location |-> "", template |-> "", flash |-> "",
     context |-> {}, json |-> results]
NoResponse == Render("", 0, "", {})

\* request.form / request.args: a record of the submitted fields; .get(key) is
\* None for a field that was not submitted.
NoForm == [x \in {} |-> None]
FormGet(form, key) == IF key \in DOMAIN form THEN form[key] ELSE None
\* .get(key, default, type=int): default when missing or not a number.
FormGetInt(form, key, default) ==
    IF IsNumber(FormGet(form, key)) THEN int(FormGet(form, key)) ELSE default
\* request.form.get(key) == 'on'
Checked(form, key) == FormGet(form, key) = <<"o", "n">>

Request(endpoint, method, id, slug, form) ==
    [endpoint |-> endpoint, method |-> method, id |-> id, slug |-> slug, form |-> form]
NoRequest == Request("", "", NullInt, None, NoForm)

EmptySession == [k \in {} |-> None]

\* login_required: whether the wrapped handler runs.
\* (variant login_not_required: a decorator that lets every session through.)
login_not_required(s) == TRUE
login_required(s) == "user_id" \in DOMAIN s
LoginRedirect == Redirect("admin_login", "warning")

(***************************************************************************)
(* Seed routine: init_default_data, run by init_db.                        *)
(***************************************************************************)
default_settings == <<
    <<"site_title", T("Shramic Networks"), T("Website title")>>,
    <<"site_tagline", T("Empowering Agriculture Through Innovation"), T("Website tagline")>>,
    <<"contact_email", T("shramicnetworks@gmail.com"), T("Contact email")>>,
    <<"contact_phone", T("+91 98765 43210"), T("Contact phone")>>,
    <<"contact_address", T("Bengaluru, Karnataka, India"), T("Contact address")>>,
    <<"facebook_url", T("#"), T("Facebook URL")>>,
    <<"twitter_url", T("#"), T("Twitter URL")>>,
    <<"linkedin_url", T("#"), T("LinkedIn URL")>>,
    <<"instagram_url", T("https://www.instagram.com/shramic.info"), T("Instagram URL")>>,
    <<"github_url", T("https://github.com/Amit-Ashok-Swain"), T("GitHub URL")>> >>

default_categories == <<
    <<T("Technology"), T("technology"), T("Agricultural technology and innovation")>>,
    <<T("Sustainability"), T("sustainability"), T("Sustainable farming practices")>>,
    <<T("Training"), T("training"), T("Farmer training and education")>>,
    <<T("Market"), T("market"), T("Market insights and trends")>> >>

default_stats == <<
    <<T("Farmers Empowered"), T("50K"), T("+"), T("fas fa-users"), 1>>,
    <<T("Average Yield Increase"), T("40"), T("%"), T("fas fa-chart-line"), 2>>,
    <<T("Additional Income Generated"), T("Rs2.5"), T("Cr"), T("fas fa-rupee-sign"), 3>>,
    <<T("Satisfaction Rate"), T("95"), T("%"), T("fas fa-smile"), 4>> >>

admin_password == <<"admin123">>

\* if not User.query.first(): add the admin user.
SeedUser(users, t) ==
    IF users = {}
    THEN {[id |-> 1, username |-> T("admin"),
           password_hash |-> generate_password_hash(admin_password),
           email |-> T("admin@shramic.com"), created_at |-> t]}
    ELSE users

\* if not Settings.query.first(): add the ten default settings.
SeedSettings(settings, t) ==
    IF settings = {}
    THEN {[id |-> i, key |-> default_settings[i][1], value |-> default_settings[i][2],
           description |-> default_settings[i][3], updated_at |-> t]
          : i \in DOMAIN default_settings}
    ELSE settings

\* if not BlogCategory.query.first(): add the four default categories.
SeedCategories(categories) ==
    IF categories = {}
    THEN {[id |-> i, name |-> default_categories[i][1], slug |-> default_categories[i][2],
           description |-> default_categories[i][3]] : i \in DOMAIN default_categories}
    ELSE categories

\* if not Statistic.query.first(): add the four default statistics.
\* (variants: SeedStatisticsAlways adds them without the emptiness test;
\* SeedStatisticsReset replaces whatever statistics exist by the defaults.)
SeedStatisticsAlways(stats) ==
    stats \cup
    {[id |-> NextId(stats) + i - 1, label |-> default_stats[i][1],
      value |-> default_stats[i][2], suffix |-> default_stats[i][3],
      icon |-> default_stats[i][4], order_index |-> default_stats[i][5],
      is_active |-> TRUE] : i \in DOMAIN default_stats}
SeedStatisticsReset(stats) ==
    {[id |-> i, label |-> default_stats[i][1], value |-> default_stats[i][2],
      suffix |-> default_stats[i][3], icon |-> default_stats[i][4],
      order_index |-> default_stats[i][5], is_active |-> TRUE]
     : i \in DOMAIN default_stats}
SeedStatistics(stats) ==
    IF stats = {}
    THEN {[id |-> i, label |-> default_stats[i][1], value |-> default_stats[i][2],
           suffix |-> default_stats[i][3], icon |-> default_stats[i][4],
           order_index |-> default_stats[i][5], is_active |-> TRUE]
          : i \in DOMAIN default_stats}
    ELSE stats

\* init_default_data(): each of the four tables is seeded when it is empty; the
\* inserts violate no constraint, so the one commit at the end succeeds.
init_default_data(users, settings, categories, stats, t) ==
    [User |-> SeedUser(users, t), Settings |-> SeedSettings(settings, t),
     BlogCategory |-> SeedCategories(categories), Statistic |-> SeedStatistics(stats)]

\* init_db(): db.create_all() and init_default_data().
init_db ==
    LET seeded == init_default_data(User, Settings, BlogCategory, Statistic, now)
    IN /\ User' = seeded.User
       /\ Settings' = seeded.Settings
       /\ BlogCategory' = seeded.BlogCategory
       /\ Statistic' = seeded.Statistic
       /\ request' = Request("init_db", "", NullInt, None, NoForm)
       /\ response' = NoResponse
       /\ UNCHANGED <<PageSection, BlogPost, Testimonial, TeamMember, Feature, session, now,
                      pending>>

\* The clock read by datetime.utcnow() advances.
Tick ==
    /\ now < MaxNow
    /\ now' = now + 1
    /\ UNCHANGED <<tables, session, request, response, pending>>

Init ==
    /\ User = {} /\ PageSection = {} /\ BlogCategory = {} /\ BlogPost = {}
    /\ Testimonial = {} /\ TeamMember = {} /\ Statistic = {} /\ Settings = {}
    /\ Feature = {}
    /\ session = EmptySession
    /\ now = 0
    /\ request = NoRequest
    /\ response = NoResponse
    /\ pending = {}


(***************************************************************************)
(* Public routes.                                                          *)
(***************************************************************************)
Ctx(name, rows) == {<<name, r.id>> : r \in rows \ {NoRow}}

\* A handler that runs from its first statement to its return without another
\* thread in between: the requests in progress elsewhere stay as they are.
Respond(req, resp) == request' = req /\ response' = resp /\ pending' = pending

\* index(): the active hero, about cards, features and statistics.
index ==
    LET hero == first({s \in PageSection :
                         s.page = T("home") /\ s.section_name = T("hero") /\ s.is_active})
        about_cards == {s \in PageSection :
                          s.page = T("home") /\ s.section_name = T("about_card") /\ s.is_active}
        features == {f \in Feature : f.is_active}
        stats == {s \in Statistic : s.is_active}
    IN /\ Respond(Request("index", "GET", NullInt, None, NoForm),
                  Render("public/index.html", 200, "",
                         Ctx("PageSection", {hero} \cup about_cards)
                         \cup Ctx("Feature", features) \cup Ctx("Statistic", stats)))
       /\ UNCHANGED <<tables, session, now>>

\* about(): the active story, mission, vision and value sections and team members.
about ==
    LET one(name) == first({s \in PageSection :
                              s.page = T("about") /\ s.section_name = T(name) /\ s.is_active})
        values == {s \in PageSection :
                     s.page = T("about") /\ s.section_name = T("value") /\ s.is_active}
        members == {m \in TeamMember : m.is_active}
    IN /\ Respond(Request("about", "GET", NullInt, None, NoForm),
                  Render("public/about.html", 200, "",
                         Ctx("PageSection", {one("story"), one("mission"), one("vision")}
                                            \cup values)
                         \cup Ctx("TeamMember", members)))
       /\ UNCHANGED <<tables, session, now>>

per_page == 9

\* query.order_by(published_at.desc()).paginate(page, per_page, error_out=False):
\* the sets a page can hold; rows with equal published_at come in either order.
TopSets(rows, k) ==
    {S \in SUBSET rows :
        /\ Cardinality(S) = (IF Cardinality(rows) < k THEN Cardinality(rows) ELSE k)
        /\ \A a \in S, b \in rows \ S : a.published_at >= b.published_at}
paginate(rows, page) ==
    IF page <= 1 THEN TopSets(rows, per_page)
    ELSE IF page = 2
         THEN UNION {TopSets(rows \ S, per_page) : S \in TopSets(rows, per_page)}
         ELSE {{}}

\* blog(): one page of the published posts, optionally of one category, the
\* categories and the featured post.  args holds request.args (page, category).
blog(args) ==
    LET page == FormGetInt(args, "page", 1)
        category_slug == FormGet(args, "category")
        category == IF Truthy(category_slug)
                    THEN first({c \in BlogCategory : c.slug = category_slug})
                    ELSE NoRow
        published == {p \in BlogPost : p.is_published}
        query == IF category # NoRow
                 THEN {p \in published : p.category_id = category.id}
                 ELSE published
        featured_post == first({p \in published : p.is_featured})
    IN /\ \E posts \in paginate(query, page) :
            Respond(Request("blog", "GET", NullInt, None, args),
                    Render("public/blog.html", 200, "",
                           Ctx("BlogPost", posts \cup {featured_post})
                           \cup Ctx("BlogCategory", BlogCategory)))
       /\ UNCHANGED <<tables, session, now>>

\* post.views += 1 and the commit: the UPDATE carries the column's onupdate value
\* for updated_at.
\* (variant SetViewsToOne: `post.views = +1`.)
SetViewsToOne(post, t) == [post EXCEPT !.views = 1, !.updated_at = t]
IncrementViews(post, t) == [post EXCEPT !.views = @ + 1, !.updated_at = t]

\* blog_detail(slug): 404 unless a published post has the slug; otherwise its
\* views are incremented and committed (the UPDATE also refreshes updated_at,
\* the column's onupdate), and the post is rendered with up to three related
\* posts in random order.
blog_detail(slug) ==
    LET post == first({p \in BlogPost : p.slug = slug /\ p.is_published})
        req == Request("blog_detail", "GET", NullInt, slug, NoForm)
    IN IF post = NoRow
       THEN /\ Respond(req, Render("public/404.html", 404, "", {}))
            /\ UNCHANGED <<tables, session, now>>
       ELSE /\ post.views < MaxViews
            /\ LET viewed == IncrementViews(post, now)
                   candidates == {p \in BlogPost :
                                    /\ p.id # post.id
                                    /\ p.category_id = post.category_id
                                    /\ p.is_published}
               IN /\ BlogPost' = (BlogPost \ {post}) \cup {viewed}
                  /\ \E related \in SUBSET candidates :
                        /\ Cardinality(related) = IF Cardinality(candidates) < 3
                                                  THEN Cardinality(candidates) ELSE 3
                        /\ Respond(req, Render("public/blog_detail.html", 200, "",
                                               Ctx("BlogPost", {viewed} \cup related)))
            /\ UNCHANGED <<User, PageSection, BlogCategory, Testimonial, TeamMember,
                           Statistic, Settings, Feature, session, now>>

\* (variant testimonials_all: the page without the is_active filter on testimonials.)
testimonials_all ==
    /\ Respond(Request("testimonials", "GET", NullInt, None, NoForm),
               Render("public/testimonial.html", 200, "",
                      Ctx("Testimonial", Testimonial)
                      \cup Ctx("Statistic", {s \in Statistic : s.is_active})))
    /\ UNCHANGED <<tables, session, now>>
\* testimonials(): the active testimonials, the featured one and the statistics.
testimonials ==
    LET active == {t \in Testimonial : t.is_active}
        stats == {s \in Statistic : s.is_active}
    IN /\ Respond(Request("testimonials", "GET", NullInt, None, NoForm),
                  Render("public/testimonial.html", 200, "",
                         Ctx("Testimonial", active) \cup Ctx("Statistic", stats)))
       /\ UNCHANGED <<tables, session, now>>

\* contact(): a static page.
contact ==
    /\ Respond(Request("contact", "GET", NullInt, None, NoForm),
               Render("public/contact.html", 200, "", {}))
    /\ UNCHANGED <<tables, session, now>>

\* api_blog_search(): [] for a missing or empty q; otherwise up to ten published
\* posts whose title, content or tags is LIKE %q%, as {id, title, slug, excerpt,
\* url} objects.  Which ten LIMIT keeps is the engine's choice.
search_limit == 10
url_for_blog_detail(slug) == <<"/", "b", "l", "o", "g", "/">> \o slug
api_blog_search(args) ==
    LET query == IF "q" \in DOMAIN args THEN args.q ELSE Empty
        req == Request("api_blog_search", "GET", NullInt, None, args)
        matching == {p \in BlogPost :
                       /\ p.is_published
                       /\ \/ contains(p.title, query)
                          \/ contains(p.content, query)
                          \/ contains(p.tags, query)}
    IN /\ IF query = Empty
          THEN Respond(req, Jsonify({}, 200))
          ELSE \E posts \in SUBSET matching :
                  /\ Cardinality(posts) = IF Cardinality(matching) < search_limit
                                          THEN Cardinality(matching) ELSE search_limit
                  /\ Respond(req, Jsonify({[id |-> p.id, title |-> p.title, slug |-> p.slug,
                                            excerpt |-> p.excerpt,
                                            url |-> url_for_blog_detail(p.slug)]
                                           : p \in posts}, 200))
       /\ UNCHANGED <<tables, session, now>>

(***************************************************************************)
(* Admin authentication routes.                                            *)
(***************************************************************************)
\* admin_login(): an already logged-in session goes to the dashboard; a POST
\* whose username names a user and whose password passes the hash check puts
\* user_id and username into the session; anything else re-renders the form.
\* A POST without a password makes check_password raise, which the handler
\* catches and flashes like a wrong password.
admin_login(method, form) ==
    LET req == Request("admin_login", method, NullInt, None, form)
        username == FormGet(form, "username")
        password == FormGet(form, "password")
        user == first({u \in User : u.username = username})
    IN /\ IF "user_id" \in DOMAIN session
          THEN /\ Respond(req, Redirect("admin_dashboard", ""))
               /\ UNCHANGED session
          ELSE IF method = "POST"
          THEN IF /\ user # NoRow
                  /\ password # None
                  /\ check_password_hash(user.password_hash, password)
               THEN /\ session' = [user_id |-> user.id, username |-> user.username]
                    /\ Respond(req, Redirect("admin_dashboard", "success"))
               ELSE /\ Respond(req, Render("admin/login.html", 200, "danger", {}))
                    /\ UNCHANGED session
          ELSE /\ Respond(req, Render("admin/login.html", 200, "", {}))
               /\ UNCHANGED session
       /\ UNCHANGED <<tables, now>>

\* admin_logout(): session.clear() and back to the login form.
admin_logout ==
    /\ session' = EmptySession
    /\ Respond(Request("admin_logout", "GET", NullInt, None, NoForm),
               Redirect("admin_login", "info"))
    /\ UNCHANGED <<tables, now>>


(***************************************************************************)
(* Admin routes.  Every one is wrapped by login_required.  fault names a   *)
(* failure of the database engine during the request (a locked or          *)
(* unwritable file): "none", "lookup" (the query before the try block      *)
(* raises) or "commit" (db.session.commit() raises).                       *)
(***************************************************************************)
Unhandled == Render("public/500.html", 500, "", {})

\* `if id`: None and 0 are falsy.
IdGiven(id) == id # NullInt /\ id # 0

\* admin_dashboard(): counts and the most recent posts and testimonials.
admin_dashboard ==
    LET req == Request("admin_dashboard", "GET", NullInt, None, NoForm)
    IN /\ IF ~login_required(session)
          THEN Respond(req, LoginRedirect)
          ELSE Respond(req, Render("admin/dashboard.html", 200, "",
                                   Ctx("BlogPost", BlogPost) \cup Ctx("Testimonial", Testimonial)))
       /\ UNCHANGED <<tables, session, now>>

\* A PageSection() as the INSERT stores it: the column defaults fill what the
\* handler does not assign.
NewPageSection(id, page, section_name) ==
    [id |-> id, page |-> page, section_name |-> section_name, title |-> None,
     content |-> None, image_url |-> None, video_url |-> None, button_text |-> None,
     button_link |-> None, order_index |-> 0, is_active |-> TRUE, updated_at |-> now]

\* The UPDATE of a loaded row: none is emitted when no attribute changed;
\* otherwise onupdate sets updated_at.
Touch(old, new) == IF new = old THEN old ELSE [new EXCEPT !.updated_at = now]

\* admin_edit_home(): fetch or create the hero section, assign the five form
\* fields, commit, redirect.
admin_edit_home(method, form) ==
    LET req == Request("admin_edit_home", method, NullInt, None, form)
        found == first({s \in PageSection :
                          s.page = T("home") /\ s.section_name = T("hero")})
        hero == IF found = NoRow
                THEN NewPageSection(NextId(PageSection), T("home"), T("hero"))
                ELSE found
        assigned == [hero EXCEPT !.title = FormGet(form, "hero_title"),
                                 !.content = FormGet(form, "hero_content"),
                                 !.image_url = FormGet(form, "hero_image"),
                                 !.button_text = FormGet(form, "hero_button_text"),
                                 !.button_link = FormGet(form, "hero_button_link")]
        page == Render("admin/edit_home.html", 200, "",
                       Ctx("PageSection", {found}) \cup Ctx("Feature", Feature))
    IN IF ~login_required(session)
       THEN /\ Respond(req, LoginRedirect)
            /\ UNCHANGED <<tables, session, now>>
       ELSE IF method = "POST"
       THEN /\ found = NoRow => HasRoom
            /\ PageSection' = (PageSection \ {found})
                              \cup {IF found = NoRow THEN assigned ELSE Touch(found, assigned)}
            /\ Respond(req, Redirect("admin_edit_home", "success"))
            /\ UNCHANGED <<User, BlogCategory, BlogPost, Testimonial, TeamMember, Statistic,
                           Settings, Feature, session, now>>
       ELSE /\ Respond(req, page)
            /\ UNCHANGED <<tables, session, now>>

\* admin_edit_about(): fetch or create the section the form names, assign the
\* three form fields, commit, redirect.  Without a section the INSERT violates
\* NOT NULL on section_name: rolled back, flashed, form re-rendered.
admin_edit_about(method, form) ==
    LET req == Request("admin_edit_about", method, NullInt, None, form)
        section == FormGet(form, "section")
        found == first({s \in PageSection :
                          s.page = T("about") /\ section # None /\ s.section_name = section})
        page_section == IF found = NoRow
                        THEN NewPageSection(NextId(PageSection), T("about"), section)
                        ELSE found
        assigned == [page_section EXCEPT !.title = FormGet(form, "title"),
                                         !.content = FormGet(form, "content"),
                                         !.image_url = FormGet(form, "image_url")]
        shown == {s \in PageSection : s.page = T("about")}
    IN IF ~login_required(session)
       THEN /\ Respond(req, LoginRedirect)
            /\ UNCHANGED <<tables, session, now>>
       ELSE IF method = "POST" /\ assigned.section_name # None
       THEN /\ found = NoRow => HasRoom
            /\ PageSection' = (PageSection \ {found})
                              \cup {IF found = NoRow THEN assigned ELSE Touch(found, assigned)}
            /\ Respond(req, Redirect("admin_edit_about", "success"))
            /\ UNCHANGED <<User, BlogCategory, BlogPost, Testimonial, TeamMember, Statistic,
                           Settings, Feature, session, now>>
       ELSE /\ Respond(req, Render("admin/edit_about.html", 200,
                                   IF method = "POST" THEN "danger" ELSE "",
                                   Ctx("PageSection", shown)))
            /\ UNCHANGED <<tables, session, now>>

\* admin_manage_blog(): the list of posts.
admin_manage_blog ==
    LET req == Request("admin_manage_blog", "GET", NullInt, None, NoForm)
    IN /\ IF ~login_required(session)
          THEN Respond(req, LoginRedirect)
          ELSE Respond(req, Render("admin/manage_blog.html", 200, "",
                                   Ctx("BlogPost", BlogPost) \cup Ctx("BlogCategory", BlogCategory)))
       /\ UNCHANGED <<tables, session, now>>

\* The value SQLite stores in an INTEGER column for a submitted text (integer
\* affinity), NULL for None.  The forms of the model submit digits or nothing.
StoredInteger(text) == int(text)

\* A BlogPost() as the INSERT stores it before the handler's assignments.
NewBlogPost(id) ==
    [id |-> id, title |-> None, slug |-> None, excerpt |-> None, content |-> None,
     featured_image |-> None, author |-> None, category_id |-> NullInt, tags |-> None,
     meta_description |-> None, read_time |-> 5, is_published |-> FALSE,
     is_featured |-> FALSE, views |-> 0, published_at |-> NullInt,
     created_at |-> now, updated_at |-> now]

\* The attributes admin_edit_blog assigns to post from the form (lines 606-620);
\* the form names a slug source (checked by the caller).
SlugSource(form) ==
    IF Truthy(FormGet(form, "slug")) THEN FormGet(form, "slug") ELSE FormGet(form, "title")
\* (variant AssignRepublish: published_at set at every published save.)
AssignRepublish(post, form) ==
    [post EXCEPT !.title = FormGet(form, "title"),
                 !.slug = create_slug(SlugSource(form)),
                 !.excerpt = FormGet(form, "excerpt"),
                 !.content = FormGet(form, "content"),
                 !.featured_image = FormGet(form, "featured_image"),
                 !.author = IF "author" \in DOMAIN form THEN form.author ELSE T("Admin"),
                 !.category_id = StoredInteger(FormGet(form, "category_id")),
                 !.tags = FormGet(form, "tags"),
                 !.meta_description = FormGet(form, "meta_description"),
                 !.read_time = FormGetInt(form, "read_time", 5),
                 !.is_published = Checked(form, "is_published"),
                 !.is_featured = Checked(form, "is_featured"),
                 !.published_at = IF Checked(form, "is_published")
                                  THEN now ELSE post.published_at]
\* (variant AssignNoSlugify: the slug stored as submitted, without create_slug.)
AssignNoSlugify(post, form) ==
    [post EXCEPT !.title = FormGet(form, "title"),
                 !.slug = SlugSource(form),
                 !.excerpt = FormGet(form, "excerpt"),
                 !.content = FormGet(form, "content"),
                 !.featured_image = FormGet(form, "featured_image"),
                 !.author = IF "author" \in DOMAIN form THEN form.author ELSE T("Admin"),
                 !.category_id = StoredInteger(FormGet(form, "category_id")),
                 !.tags = FormGet(form, "tags"),
                 !.meta_description = FormGet(form, "meta_description"),
                 !.read_time = FormGetInt(form, "read_time", 5),
                 !.is_published = Checked(form, "is_published"),
                 !.is_featured = Checked(form, "is_featured"),
                 !.published_at = IF Checked(form, "is_published") /\ post.published_at = NullInt
                                  THEN now ELSE post.published_at]
AssignBlogPost(post, form) ==
    [post EXCEPT !.title = FormGet(form, "title"),
                 !.slug = create_slug(SlugSource(form)),
                 !.excerpt = FormGet(form, "excerpt"),
                 !.content = FormGet(form, "content"),
                 !.featured_image = FormGet(form, "featured_image"),
                 !.author = IF "author" \in DOMAIN form THEN form.author ELSE T("Admin"),
                 !.category_id = StoredInteger(FormGet(form, "category_id")),
                 !.tags = FormGet(form, "tags"),
                 !.meta_description = FormGet(form, "meta_description"),
                 !.read_time = FormGetInt(form, "read_time", 5),
                 !.is_published = Checked(form, "is_published"),
                 !.is_featured = Checked(form, "is_featured"),
                 !.published_at = IF Checked(form, "is_published") /\ post.published_at = NullInt
                                  THEN now ELSE post.published_at]

\* The constraints of the blog_post table a commit checks: title, slug and
\* content NOT NULL, slug UNIQUE.
\* (variant BlogPostNotNull: the table without UNIQUE on slug.)
BlogPostNotNull(post, others) ==
    post.title # None /\ post.slug # None /\ post.content # None
BlogPostConstraints(post, others) ==
    /\ post.title # None /\ post.slug # None /\ post.content # None
    /\ \A o \in others : o.slug # post.slug

\* admin_edit_blog(id): the lookup runs before the try block; a POST creates the
\* post when none was found, assigns the form, commits and redirects to the list;
\* any exception in the try block (create_slug(None), a constraint, the engine)
\* is rolled back, flashed, and the form re-rendered.
admin_edit_blog(id, method, form, fault) ==
    LET req == Request("admin_edit_blog", method, id, None, form)
        found == IF IdGiven(id) THEN get(BlogPost, id) ELSE NoRow
        post == IF found = NoRow THEN NewBlogPost(NextId(BlogPost)) ELSE found
        assigned == AssignBlogPost(post, form)
        \* the submitted category_id is a str, never equal to the loaded int
        saved == IF found = NoRow THEN assigned
                 ELSE IF assigned = found /\ FormGet(form, "category_id") = None THEN found
                 ELSE [assigned EXCEPT !.updated_at = now]
        ok == /\ fault = "none"
              /\ SlugSource(form) # None
              /\ BlogPostConstraints(assigned, BlogPost \ {found})
        form_page(flash) == Render("admin/edit_blog.html", 200, flash,
                                   Ctx("BlogPost", {found}) \cup Ctx("BlogCategory", BlogCategory))
    IN IF ~login_required(session)
       THEN /\ Respond(req, LoginRedirect)
            /\ UNCHANGED <<tables, session, now>>
       ELSE IF fault = "lookup" /\ IdGiven(id)
       THEN /\ Respond(req, Unhandled)
            /\ UNCHANGED <<tables, session, now>>
       ELSE IF method = "POST" /\ ok
       THEN /\ found = NoRow => HasRoom
            /\ BlogPost' = (BlogPost \ {found}) \cup {saved}
            /\ Respond(req, Redirect("admin_manage_blog", "success"))
            /\ UNCHANGED <<User, PageSection, BlogCategory, Testimonial, TeamMember, Statistic,
                           Settings, Feature, session, now>>
       ELSE /\ Respond(req, form_page(IF method = "POST" THEN "danger" ELSE ""))
            /\ UNCHANGED <<tables, session, now>>

\* get_or_404 inside the handler's try block: the NotFound it raises is an
\* Exception, so the handler's own except clause catches it, rolls back, flashes
\* and goes on to the redirect.
\* (variant DeleteRowsFrom: the row and every row with a larger id.)
DeleteRowsFrom(table, id) == {r \in table : r.id < id}
DeleteRow(table, id) == table \ {get(table, id)}
DeleteFlash(table, id) == IF id \in Ids(table) THEN "success" ELSE "danger"

\* admin_delete_blog(id)
admin_delete_blog(id) ==
    LET req == Request("admin_delete_blog", "POST", id, None, NoForm)
    IN IF ~login_required(session)
       THEN /\ Respond(req, LoginRedirect)
            /\ UNCHANGED <<tables, session, now>>
       ELSE /\ BlogPost' = DeleteRow(BlogPost, id)
            /\ Respond(req, Redirect("admin_manage_blog", DeleteFlash(BlogPost, id)))
            /\ UNCHANGED <<User, PageSection, BlogCategory, Testimonial, TeamMember, Statistic,
                           Settings, Feature, session, now>>


\* admin_manage_testimonials(): the list of testimonials.
admin_manage_testimonials ==
    LET req == Request("admin_manage_testimonials", "GET", NullInt, None, NoForm)
    IN /\ IF ~login_required(session)
          THEN Respond(req, LoginRedirect)
          ELSE Respond(req, Render("admin/manage_testimonials.html", 200, "",
                                   Ctx("Testimonial", Testimonial)))
       /\ UNCHANGED <<tables, session, now>>

NewTestimonial(id) ==
    [id |-> id, name |-> None, location |-> None, role |-> None, avatar_url |-> None,
     testimonial |-> None, rating |-> 5, yield_increase |-> None, water_saved |-> None,
     income_increase |-> None, video_url |-> None, is_featured |-> FALSE,
     is_active |-> TRUE, order_index |-> 0, created_at |-> now]

\* The attributes admin_edit_testimonial assigns from the form (lines 681-693).
AssignTestimonial(row, form) ==
    [row EXCEPT !.name = FormGet(form, "name"),
                !.location = FormGet(form, "location"),
                !.role = FormGet(form, "role"),
                !.avatar_url = FormGet(form, "avatar_url"),
                !.testimonial = FormGet(form, "testimonial"),
                !.rating = FormGetInt(form, "rating", 5),
                !.yield_increase = FormGet(form, "yield_increase"),
                !.water_saved = FormGet(form, "water_saved"),
                !.income_increase = FormGet(form, "income_increase"),
                !.video_url = FormGet(form, "video_url"),
                !.is_featured = Checked(form, "is_featured"),
                !.is_active = Checked(form, "is_active"),
                !.order_index = FormGetInt(form, "order_index", 0)]

\* admin_edit_testimonial(id): as admin_edit_blog; name and testimonial are NOT NULL.
admin_edit_testimonial(id, method, form, fault) ==
    LET req == Request("admin_edit_testimonial", method, id, None, form)
        found == IF IdGiven(id) THEN get(Testimonial, id) ELSE NoRow
        row == IF found = NoRow THEN NewTestimonial(NextId(Testimonial)) ELSE found
        assigned == AssignTestimonial(row, form)
        ok == fault = "none" /\ assigned.name # None /\ assigned.testimonial # None
    IN IF ~login_required(session)
       THEN /\ Respond(req, LoginRedirect)
            /\ UNCHANGED <<tables, session, now>>
       ELSE IF fault = "lookup" /\ IdGiven(id)
       THEN /\ Respond(req, Unhandled)
            /\ UNCHANGED <<tables, session, now>>
       ELSE IF method = "POST" /\ ok
       THEN /\ found = NoRow => HasRoom
            /\ Testimonial' = (Testimonial \ {found}) \cup {assigned}
            /\ Respond(req, Redirect("admin_manage_testimonials", "success"))
            /\ UNCHANGED <<User, PageSection, BlogCategory, BlogPost, TeamMember, Statistic,
                           Settings, Feature, session, now>>
       ELSE /\ Respond(req, Render("admin/edit_testimonial.html", 200,
                                   IF method = "POST" THEN "danger" ELSE "",
                                   Ctx("Testimonial", {found})))
            /\ UNCHANGED <<tables, session, now>>

\* admin_delete_testimonial(id)
admin_delete_testimonial(id) ==
    LET req == Request("admin_delete_testimonial", "POST", id, None, NoForm)
    IN IF ~login_required(session)
       THEN /\ Respond(req, LoginRedirect)
            /\ UNCHANGED <<tables, session, now>>
       ELSE /\ Testimonial' = DeleteRow(Testimonial, id)
            /\ Respond(req, Redirect("admin_manage_testimonials", DeleteFlash(Testimonial, id)))
            /\ UNCHANGED <<User, PageSection, BlogCategory, BlogPost, TeamMember, Statistic,
                           Settings, Feature, session, now>>

\* admin_manage_team(): the list of team members.
admin_manage_team ==
    LET req == Request("admin_manage_team", "GET", NullInt, None, NoForm)
    IN /\ IF ~login_required(session)
          THEN Respond(req, LoginRedirect)
          ELSE Respond(req, Render("admin/manage_team.html", 200, "",
                                   Ctx("TeamMember", TeamMember)))
       /\ UNCHANGED <<tables, session, now>>

NewTeamMember(id) ==
    [id |-> id, name |-> None, position |-> None, bio |-> None, photo_url |-> None,
     email |-> None, linkedin |-> None, twitter |-> None, order_index |-> 0,
     is_leadership |-> FALSE, is_active |-> TRUE, created_at |-> now]

\* The attributes admin_edit_team assigns from the form (lines 753-762).
AssignTeamMember(member, form) ==
    [member EXCEPT !.name = FormGet(form, "name"),
                   !.position = FormGet(form, "position"),
                   !.bio = FormGet(form, "bio"),
                   !.photo_url = FormGet(form, "photo_url"),
                   !.email = FormGet(form, "email"),
                   !.linkedin = FormGet(form, "linkedin"),
                   !.twitter = FormGet(form, "twitter"),
                   !.is_leadership = Checked(form, "is_leadership"),
                   !.is_active = Checked(form, "is_active"),
                   !.order_index = FormGetInt(form, "order_index", 0)]

\* admin_edit_team(id): as admin_edit_blog; name and position are NOT NULL.
admin_edit_team(id, method, form, fault) ==
    LET req == Request("admin_edit_team", method, id, None, form)
        found == IF IdGiven(id) THEN get(TeamMember, id) ELSE NoRow
        member == IF found = NoRow THEN NewTeamMember(NextId(TeamMember)) ELSE found
        assigned == AssignTeamMember(member, form)
        ok == fault = "none" /\ assigned.name # None /\ assigned.position # None
    IN IF ~login_required(session)
       THEN /\ Respond(req, LoginRedirect)
            /\ UNCHANGED <<tables, session, now>>
       ELSE IF fault = "lookup" /\ IdGiven(id)
       THEN /\ Respond(req, Unhandled)
            /\ UNCHANGED <<tables, session, now>>
       ELSE IF method = "POST" /\ ok
       THEN /\ found = NoRow => HasRoom
            /\ TeamMember' = (TeamMember \ {found}) \cup {assigned}
            /\ Respond(req, Redirect("admin_manage_team", "success"))
            /\ UNCHANGED <<User, PageSection, BlogCategory, BlogPost, Testimonial, Statistic,
                           Settings, Feature, session, now>>
       ELSE /\ Respond(req, Render("admin/edit_team.html", 200,
                                   IF method = "POST" THEN "danger" ELSE "",
                                   Ctx("TeamMember", {found})))
            /\ UNCHANGED <<tables, session, now>>

\* admin_delete_team(id)
admin_delete_team(id) ==
    LET req == Request("admin_delete_team", "POST", id, None, NoForm)
    IN IF ~login_required(session)
       THEN /\ Respond(req, LoginRedirect)
            /\ UNCHANGED <<tables, session, now>>
       ELSE /\ TeamMember' = DeleteRow(TeamMember, id)
            /\ Respond(req, Redirect("admin_manage_team", DeleteFlash(TeamMember, id)))
            /\ UNCHANGED <<User, PageSection, BlogCategory, BlogPost, Testimonial, Statistic,
                           Settings, Feature, session, now>>

NewStatistic(id) ==
    [id |-> id, label |-> None, value |-> None, suffix |-> None, icon |-> None,
     order_index |-> 0, is_active |-> TRUE]

\* The attributes admin_manage_stats assigns from the form (lines 810-815).
AssignStatistic(stat, form) ==
    [stat EXCEPT !.label = FormGet(form, "label"),
                 !.value = FormGet(form, "value"),
                 !.suffix = FormGet(form, "suffix"),
                 !.icon = FormGet(form, "icon"),
                 !.order_index = FormGetInt(form, "order_index", 0),
                 !.is_active = Checked(form, "is_active")]

\* admin_manage_stats(): a POST with a stat_id edits that statistic (no row:
\* stat is None and the first assignment raises), one without creates a
\* statistic; label and value are NOT NULL.  Failures are rolled back, flashed
\* and the list re-rendered.
admin_manage_stats(method, form) ==
    LET req == Request("admin_manage_stats", method, NullInt, None, form)
        stat_id == FormGet(form, "stat_id")
        found == IF Truthy(stat_id) THEN get(Statistic, int(stat_id)) ELSE NoRow
        stat == IF Truthy(stat_id) THEN found ELSE NewStatistic(NextId(Statistic))
        assigned == AssignStatistic(stat, form)
        ok == stat # NoRow /\ assigned.label # None /\ assigned.value # None
    IN IF ~login_required(session)
       THEN /\ Respond(req, LoginRedirect)
            /\ UNCHANGED <<tables, session, now>>
       ELSE IF method = "POST" /\ ok
       THEN /\ found = NoRow => HasRoom
            /\ Statistic' = (Statistic \ {found}) \cup {assigned}
            /\ Respond(req, Redirect("admin_manage_stats", "success"))
            /\ UNCHANGED <<User, PageSection, BlogCategory, BlogPost, Testimonial, TeamMember,
                           Settings, Feature, session, now>>
       ELSE /\ Respond(req, Render("admin/manage_stats.html", 200,
                                   IF method = "POST" THEN "danger" ELSE "",
                                   Ctx("Statistic", Statistic)))
            /\ UNCHANGED <<tables, session, now>>

\* admin_delete_stat(id)
admin_delete_stat(id) ==
    LET req == Request("admin_delete_stat", "POST", id, None, NoForm)
    IN IF ~login_required(session)
       THEN /\ Respond(req, LoginRedirect)
            /\ UNCHANGED <<tables, session, now>>
       ELSE /\ Statistic' = DeleteRow(Statistic, id)
            /\ Respond(req, Redirect("admin_manage_stats", DeleteFlash(Statistic, id)))
            /\ UNCHANGED <<User, PageSection, BlogCategory, BlogPost, Testimonial, TeamMember,
                           Settings, Feature, session, now>>

(***************************************************************************)
(* Settings store.                                                         *)
(***************************************************************************)
\* get_setting(key, default)
get_setting(settings, key, default) ==
    LET setting == first({r \in settings : r.key = key})
    IN IF setting # NoRow THEN setting.value ELSE default

\* update_setting(key, value): set the value of the key's row, or insert a row
\* for the key, and commit.
\* (variant add_setting: a row is added for the key whether or not it has one.)
add_setting(settings, key, value) ==
    settings \cup {[id |-> NextId(settings), key |-> key, value |-> value,
                    description |-> Empty, updated_at |-> now]}
update_setting(settings, key, value) ==
    LET setting == first({r \in settings : r.key = key})
    IN IF setting # NoRow
       THEN (settings \ {setting}) \cup {[setting EXCEPT !.value = value, !.updated_at = now]}
       ELSE settings \cup {[id |-> NextId(settings), key |-> key, value |-> value,
                            description |-> Empty, updated_at |-> now]}

\* The keys of settings_data in admin_settings, in the order the loop visits them.
settings_keys == <<"site_title", "site_tagline", "contact_email", "contact_phone",
                   "contact_address", "facebook_url", "twitter_url", "linkedin_url",
                   "instagram_url", "github_url">>

\* for key, value in settings_data.items(): update_setting(key, value), for the
\* first n keys; every call commits.
RECURSIVE UpdateSettings(_, _, _)
UpdateSettings(settings, form, n) ==
    IF n = 0 THEN settings
    ELSE update_setting(UpdateSettings(settings, form, n - 1),
                        settings_keys[n], FormGet(form, settings_keys[n]))

\* admin_settings(): a POST updates the ten keys one after the other and
\* redirects; failAt = k > 0 is the engine failing in the k-th update_setting:
\* the exception is caught and flashed and the page rendered; the k-1 updates
\* before it are already committed.  failAt = 0: no failure.
admin_settings(method, form, failAt) ==
    LET req == Request("admin_settings", method, NullInt, None, form)
    IN IF ~login_required(session)
       THEN /\ Respond(req, LoginRedirect)
            /\ UNCHANGED <<tables, session, now>>
       ELSE IF method = "POST"
       THEN /\ Settings' = UpdateSettings(Settings, form,
                                          IF failAt = 0 THEN Len(settings_keys) ELSE failAt - 1)
            /\ Respond(req, IF failAt = 0
                            THEN Redirect("admin_settings", "success")
                            ELSE Render("admin/settings.html", 200, "danger", {}))
            /\ UNCHANGED <<User, PageSection, BlogCategory, BlogPost, Testimonial, TeamMember,
                           Statistic, Feature, session, now>>
       ELSE /\ Respond(req, Render("admin/settings.html", 200, "", {}))
            /\ UNCHANGED <<tables, session, now>>


(***************************************************************************)
(* Inputs: the forms, ids and query strings the requests of the model      *)
(* carry.                                                                  *)
(***************************************************************************)
On == <<"o", "n">>

GoodLogin == [username |-> T("admin"), password |-> admin_password]
BadLogin == [username |-> T("admin"), password |-> <<"guess">>]
LoginForms == {GoodLogin, BadLogin, NoForm}

\* Blog forms: a title that is no slug yet, published; a second post, not
\* published; the first title again under an explicit slug; a form without title.
BlogFormA ==
    [title |-> <<"A", " ", "b">>, slug |-> Empty, excerpt |-> T("excerpt A"),
     content |-> <<"a", "_", "c">>, featured_image |-> T("a.png"), author |-> T("Ann"),
     category_id |-> <<"1">>, tags |-> <<"a", "b">>, meta_description |-> T("meta A"),
     read_time |-> <<"7">>, is_published |-> On, is_featured |-> On]
BlogFormB ==
    [title |-> <<"b", "!">>, slug |-> <<"B", "-", "-", "c">>, excerpt |-> T("excerpt B"),
     content |-> <<"c">>, read_time |-> <<"x">>]
BlogFormNoTitle == [content |-> <<"c">>, is_published |-> On]
BlogForms == {BlogFormA, BlogFormB, BlogFormNoTitle}

HomeFormA ==
    [hero_title |-> T("Grow"), hero_content |-> T("hero text"), hero_image |-> T("hero.png"),
     hero_button_text |-> T("Join"), hero_button_link |-> T("/contact")]
HomeFormB == [hero_title |-> T("Harvest")]
HomeForms == {HomeFormA, HomeFormB}

AboutFormStory ==
    [section |-> T("story"), title |-> T("Our story"), content |-> T("story text"),
     image_url |-> T("story.png")]
AboutFormMission == [section |-> T("mission"), title |-> T("Our mission")]
AboutFormNoSection == [title |-> T("Untitled")]
AboutForms == {AboutFormStory, AboutFormMission, AboutFormNoSection}

TestimonialFormA ==
    [name |-> T("Ravi"), location |-> T("Mysuru"), role |-> T("Farmer"),
     avatar_url |-> T("ravi.png"), testimonial |-> T("It works"), rating |-> <<"4">>,
     yield_increase |-> T("40%"), water_saved |-> T("30%"), income_increase |-> T("25%"),
     video_url |-> T("video"), is_featured |-> On, is_active |-> On, order_index |-> <<"2">>]
TestimonialFormB == [name |-> T("Asha"), testimonial |-> T("Good"), rating |-> <<"x">>]
TestimonialFormNoName == [testimonial |-> T("Anonymous")]
TestimonialForms == {TestimonialFormA, TestimonialFormB, TestimonialFormNoName}

TeamFormA ==
    [name |-> T("Amit"), position |-> T("CEO"), bio |-> T("bio"), photo_url |-> T("amit.png"),
     email |-> T("amit@shramic.com"), linkedin |-> T("in/amit"), twitter |-> T("@amit"),
     is_leadership |-> On, is_active |-> On, order_index |-> <<"1">>]
TeamFormB == [name |-> T("Bina"), position |-> T("Agronomist")]
TeamFormNoPosition == [name |-> T("Chandra")]
TeamForms == {TeamFormA, TeamFormB, TeamFormNoPosition}

StatFormNew ==
    [label |-> T("Villages"), value |-> T("120"), suffix |-> T("+"), icon |-> T("fas fa-home"),
     order_index |-> <<"5">>, is_active |-> On]
StatFormEdit1 == [stat_id |-> <<"1">>, label |-> T("Farmers"), value |-> T("60K")]
StatFormEdit9 == [stat_id |-> <<"9">>, label |-> T("Ghost"), value |-> T("0")]
StatFormNoValue == [label |-> T("Unvalued")]
StatForms == {StatFormNew, StatFormEdit1, StatFormEdit9, StatFormNoValue}

SettingsFormA == [k \in {settings_keys[i] : i \in DOMAIN settings_keys} |-> T("new value")]
SettingsFormB == [site_title |-> T("Shramic")]
SettingsForms == {SettingsFormA, SettingsFormB}

Methods == {"GET", "POST"}
RowIds == {1, 2}
EditIds == {NullInt, 0, 1, 2}
Faults == {"none", "lookup", "commit"}
FailAts == 0 .. Len(settings_keys)

(***************************************************************************)
(* Spec: every route of the application and the seed routine, each admin   *)
(* handler with one valid form.                                            *)
(***************************************************************************)
PublicNext ==
    \/ index
    \/ about
    \/ \E args \in {NoForm, [category |-> T("technology")]} : blog(args)
    \/ \E slug \in {<<"a", "-", "b">>} : blog_detail(slug)
    \/ testimonials
    \/ contact
    \/ \E args \in {NoForm, [q |-> <<"b">>]} : api_blog_search(args)

AuthNext ==
    \/ \E form \in {GoodLogin, BadLogin} : admin_login("POST", form)
    \/ admin_login("GET", NoForm)
    \/ admin_logout

AdminNext ==
    \/ admin_dashboard
    \/ \E method \in Methods : admin_edit_home(method, HomeFormA)
    \/ \E method \in Methods : admin_edit_about(method, AboutFormStory)
    \/ admin_manage_blog
    \/ \E id \in {NullInt, 1}, method \in Methods : admin_edit_blog(id, method, BlogFormA, "none")
    \/ \E id \in {1} : admin_delete_blog(id)
    \/ admin_manage_testimonials
    \/ \E id \in {NullInt, 1}, method \in Methods :
          admin_edit_testimonial(id, method, TestimonialFormA, "none")
    \/ \E id \in {1} : admin_delete_testimonial(id)
    \/ admin_manage_team
    \/ \E id \in {NullInt, 1}, method \in Methods : admin_edit_team(id, method, TeamFormA, "none")
    \/ \E id \in {1} : admin_delete_team(id)
    \/ \E method \in Methods : admin_manage_stats(method, StatFormNew)
    \/ \E id \in {1} : admin_delete_stat(id)
    \/ \E method \in Methods : admin_settings(method, SettingsFormB, 0)

Next == init_db \/ PublicNext \/ AuthNext \/ AdminNext

Spec == Init /\ [][Next]_vars


(***************************************************************************)
(* Properties.                                                             *)
(***************************************************************************)
AdminEndpoints ==
    {"admin_dashboard", "admin_edit_home", "admin_edit_about", "admin_manage_blog",
     "admin_edit_blog", "admin_delete_blog", "admin_manage_testimonials",
     "admin_edit_testimonial", "admin_delete_testimonial", "admin_manage_team",
     "admin_edit_team", "admin_delete_team", "admin_manage_stats", "admin_delete_stat",
     "admin_settings"}
DeleteEndpoints ==
    {"admin_delete_blog", "admin_delete_testimonial", "admin_delete_team",
     "admin_delete_stat"}
PublicEndpoints == {"index", "about", "blog", "blog_detail", "testimonials", "contact"}

\* The step handles a request (every handler leaves the clock alone and records
\* the request it handled).
Handles(endpoints) == request'.endpoint \in endpoints /\ now' = now
LoggedIn == "user_id" \in DOMAIN session

\* C1: a request to any admin route from a session without user_id is answered
\* with the redirect to the login page and changes no table (nor the session).
C1_AdminGate ==
    [][(Handles(AdminEndpoints) /\ ~LoggedIn)
         => (response' = LoginRedirect /\ tables' = tables /\ session' = session)]_vars

\* C1 witness: a delete of an existing post, sent without a login, was redirected
\* to the login page, and the post is still there.
C1_Witness ==
    /\ request.endpoint = "admin_delete_blog"
    /\ request.id \in Ids(BlogPost)
    /\ ~LoggedIn
    /\ response = LoginRedirect

\* The table a delete route deletes from.
DeleteTarget(endpoint) ==
    CASE endpoint = "admin_delete_blog" -> BlogPost
      [] endpoint = "admin_delete_testimonial" -> Testimonial
      [] endpoint = "admin_delete_team" -> TeamMember
      [] endpoint = "admin_delete_stat" -> Statistic

\* C2 (as claimed): a logged-in POST to a delete route with an id that matches no
\* row is answered 404 and changes no table.
C2_DeleteMissingIs404 ==
    [][(/\ Handles(DeleteEndpoints)
        /\ LoggedIn
        /\ request'.id \notin Ids(DeleteTarget(request'.endpoint)))
         => (response'.status = 404 /\ tables' = tables)]_vars

\* Rows of a table leave or enter it in the step (a row is its primary key).
Removes(table, table2) == Ids(table) \ Ids(table2) # {}
Inserts(table, table2) == Ids(table2) \ Ids(table) # {}
RemovesAny ==
    \/ Removes(User, User') \/ Removes(PageSection, PageSection')
    \/ Removes(BlogCategory, BlogCategory') \/ Removes(BlogPost, BlogPost')
    \/ Removes(Testimonial, Testimonial') \/ Removes(TeamMember, TeamMember')
    \/ Removes(Statistic, Statistic') \/ Removes(Settings, Settings')
    \/ Removes(Feature, Feature')
InsertsAny ==
    \/ Inserts(User, User') \/ Inserts(PageSection, PageSection')
    \/ Inserts(BlogCategory, BlogCategory') \/ Inserts(BlogPost, BlogPost')
    \/ Inserts(Testimonial, Testimonial') \/ Inserts(TeamMember, TeamMember')
    \/ Inserts(Statistic, Statistic') \/ Inserts(Settings, Settings')
    \/ Inserts(Feature, Feature')

\* A step removes rows only as a logged-in POST to a delete route, and then only
\* from that route's table.
RemovalOnlyByDelete ==
    /\ RemovesAny => /\ Handles(DeleteEndpoints)
                     /\ request'.method = "POST"
                     /\ LoggedIn
    /\ Removes(BlogPost, BlogPost') => request'.endpoint = "admin_delete_blog"
    /\ Removes(Testimonial, Testimonial') => request'.endpoint = "admin_delete_testimonial"
    /\ Removes(TeamMember, TeamMember') => request'.endpoint = "admin_delete_team"
    /\ Removes(Statistic, Statistic') => request'.endpoint = "admin_delete_stat"

\* The route that inserts into each table an admin can add rows to.
InsertionByItsHandler ==
    /\ Inserts(PageSection, PageSection')
         => request'.endpoint \in {"admin_edit_home", "admin_edit_about"}
    /\ Inserts(BlogPost, BlogPost') => request'.endpoint = "admin_edit_blog"
    /\ Inserts(Testimonial, Testimonial') => request'.endpoint = "admin_edit_testimonial"
    /\ Inserts(TeamMember, TeamMember') => request'.endpoint = "admin_edit_team"
    /\ Inserts(Statistic, Statistic') => request'.endpoint \in {"admin_manage_stats", "init_db"}
    /\ Inserts(Settings, Settings') => request'.endpoint \in {"admin_settings", "init_db"}
    /\ Inserts(User, User') => request'.endpoint = "init_db"
    /\ Inserts(BlogCategory, BlogCategory') => request'.endpoint = "init_db"
    /\ ~Inserts(Feature, Feature')

\* C10 (as claimed): rows are removed only by a logged-in POST to the entity's
\* delete route, and rows are inserted only by an admin request.
C10_RowsOnlyByAdminCrud ==
    [][/\ RemovalOnlyByDelete
       /\ InsertsAny => (Handles(AdminEndpoints) /\ LoggedIn)]_vars

\* C10 (amended): rows are removed only by a logged-in POST to the entity's
\* delete route; rows are inserted only by a logged-in POST to the entity's
\* create/edit handler or by the seed routine (users, settings, categories and
\* statistics).
C10_RowsOnlyByAdminCrudOrSeed ==
    [][/\ RemovalOnlyByDelete
       /\ InsertionByItsHandler
       /\ InsertsAny => \/ Handles({"init_db"})
                        \/ /\ Handles(AdminEndpoints \ DeleteEndpoints)
                           /\ request'.method = "POST"
                           /\ LoggedIn]_vars

\* C10 witness: a logged-in admin deleted a statistic the seed routine inserted.
C10_Witness ==
    /\ request.endpoint = "admin_delete_stat"
    /\ response = Redirect("admin_manage_stats", "success")
    /\ Cardinality(Statistic) = Len(default_stats) - 1
    /\ User # {}


(***************************************************************************)
(* SpecSeed: the seed routine run at any time, between an admin's edits    *)
(* and deletions of the statistics it inserted.                            *)
(***************************************************************************)
SeedNext ==
    \/ init_db
    \/ Tick
    \/ admin_login("POST", GoodLogin)
    \/ admin_logout
    \/ \E form \in StatForms : admin_manage_stats("POST", form)
    \/ \E id \in 1 .. Len(default_stats) : admin_delete_stat(id)
    \/ index

SpecSeed == Init /\ [][SeedNext]_vars

\* C5: seeding is idempotent: on every reachable store, a second run of
\* init_default_data (at the same time or later) leaves the store as the first
\* run left it; it adds no user, setting, category or statistic.
C5_SeedIdempotent ==
    \A t2 \in now .. MaxNow :
        LET once == init_default_data(User, Settings, BlogCategory, Statistic, now)
            twice == init_default_data(once.User, once.Settings, once.BlogCategory,
                                       once.Statistic, t2)
        IN /\ twice = once
           /\ Cardinality(twice.User) = Cardinality(once.User)
           /\ Cardinality(twice.Settings) = Cardinality(once.Settings)
           /\ Cardinality(twice.BlogCategory) = Cardinality(once.BlogCategory)
           /\ Cardinality(twice.Statistic) = Cardinality(once.Statistic)

\* C5 witness: the seed routine has run again on a store an admin had emptied of
\* statistics: the four default statistics are back, stamped with a later run.
C5_Witness ==
    /\ request.endpoint = "init_db"
    /\ LoggedIn
    /\ Cardinality(Statistic) = Len(default_stats)
    /\ \E u \in User : u.created_at < now

StoreNonEmpty ==
    \/ User # {} \/ PageSection # {} \/ BlogCategory # {} \/ BlogPost # {}
    \/ Testimonial # {} \/ TeamMember # {} \/ Statistic # {} \/ Settings # {}
    \/ Feature # {}

\* C6 (as claimed): when the store holds a row in any table, the seed routine
\* inserts nothing.
C6_SeedOnlyWhenStoreEmpty ==
    [][(Handles({"init_db"}) /\ StoreNonEmpty) => tables' = tables]_vars


(***************************************************************************)
(* SpecFaults: admin writes with requests that raise in the handler (a     *)
(* form without title, a stat_id of no row) and with failures of the       *)
(* database engine.                                                        *)
(***************************************************************************)
FaultsNext ==
    \/ init_db
    \/ Tick
    \/ admin_login("POST", GoodLogin)
    \/ admin_logout
    \/ \E method \in Methods, form \in SettingsForms, failAt \in {0, 1, 2, 3, Len(settings_keys)} :
          admin_settings(method, form, failAt)
    \/ \E id \in {NullInt, 1}, form \in {BlogFormA, BlogFormNoTitle}, fault \in Faults :
          admin_edit_blog(id, "POST", form, fault)
    \/ \E form \in {StatFormEdit1, StatFormEdit9} : admin_manage_stats("POST", form)

SpecFaults == Init /\ [][FaultsNext]_vars

\* The ten keys hold the values the form submitted.
SettingsSaved(settings, form) ==
    \A i \in DOMAIN settings_keys :
        \E r \in settings : r.key = settings_keys[i] /\ r.value = FormGet(form, settings_keys[i])

\* C7 (as claimed): an admin POST is one unit: either every change it intended is
\* persisted (and it reports success), or none is; a settings POST that fails at
\* its k-th key leaves no earlier key with its new value.
C7_AdminWriteIsOneUnit ==
    [][(Handles(AdminEndpoints) /\ request'.method = "POST" /\ LoggedIn)
         => \/ tables' = tables
            \/ /\ response'.flash = "success"
               /\ request'.endpoint = "admin_settings"
                    => SettingsSaved(Settings', request'.form)]_vars

\* C8 (as claimed): whatever raises in a handler is caught: the response is never
\* an unhandled error (500), and a request that ended in an error (flashed or
\* 404) left the tables as they were.
C8_ExceptionsCaughtAndRolledBack ==
    [][(request'.endpoint # "init_db" /\ now' = now)
         => /\ response'.status # 500
            /\ (response'.flash = "danger" \/ response'.status = 404) => tables' = tables]_vars


(***************************************************************************)
(* SpecPublic: the public routes, over stores an admin fills with posts,   *)
(* a hero section and testimonials.                                        *)
(***************************************************************************)
PublicSiteNext ==
    \/ init_db
    \/ Tick
    \/ admin_login("POST", GoodLogin)
    \/ admin_logout
    \/ \E id \in {NullInt, 1}, form \in {BlogFormA, BlogFormB} :
          admin_edit_blog(id, "POST", form, "none")
    \/ admin_edit_home("POST", HomeFormA)
    \/ admin_edit_testimonial(NullInt, "POST", TestimonialFormA, "none")
    \/ index
    \/ about
    \/ \E args \in {NoForm, [category |-> T("technology")], [page |-> <<"2">>]} : blog(args)
    \/ \E slug \in {<<"a", "-", "b">>, <<"b", "-", "c">>, <<"c">>} : blog_detail(slug)
    \/ testimonials
    \/ contact

SpecPublic == Init /\ [][PublicSiteNext]_vars

\* C9 (as claimed): no request to a public route changes any row.
C9_PublicRoutesReadOnly ==
    [][Handles(PublicEndpoints) => tables' = tables]_vars

\* C9 (amended): a request to a public route changes no row, except that a blog
\* detail request that serves a published post adds one to that post's views and
\* sets its updated_at to the time of the request; nothing else changes.
C9_PublicRoutesReadOnlyButViews ==
    [][Handles(PublicEndpoints)
         => \/ tables' = tables
            \/ /\ request'.endpoint = "blog_detail"
               /\ response'.status = 200
               /\ \E p \in BlogPost :
                     /\ p.slug = request'.slug
                     /\ p.is_published
                     /\ BlogPost' = (BlogPost \ {p})
                                    \cup {[p EXCEPT !.views = p.views + 1, !.updated_at = now]}
               /\ UNCHANGED <<User, PageSection, BlogCategory, Testimonial, TeamMember,
                              Statistic, Settings, Feature>>]_vars

\* C9 witness: a published post has been served by the blog detail route (after
\* the clock moved on from its creation).
C9_Witness ==
    /\ request.endpoint = "blog_detail"
    /\ response.status = 200
    /\ \E p \in BlogPost : p.slug = request.slug /\ p.views > 1 /\ p.updated_at > p.created_at


(***************************************************************************)
(* SpecCrud: the six create/edit handlers, POSTed by a logged-in or        *)
(* anonymous browser with complete, partial and invalid forms, while the   *)
(* clock advances.                                                         *)
(***************************************************************************)
CrudNext ==
    \/ init_db
    \/ Tick
    \/ admin_login("POST", GoodLogin)
    \/ admin_logout
    \/ \E form \in HomeForms : admin_edit_home("POST", form)
    \/ \E form \in AboutForms : admin_edit_about("POST", form)
    \/ \E id \in {NullInt, 1}, form \in BlogForms : admin_edit_blog(id, "POST", form, "none")
    \/ \E id \in {NullInt, 1}, form \in {TestimonialFormA, TestimonialFormNoName} :
          admin_edit_testimonial(id, "POST", form, "none")
    \/ \E id \in {NullInt, 1}, form \in {TeamFormA, TeamFormNoPosition} :
          admin_edit_team(id, "POST", form, "none")
    \/ \E form \in StatForms : admin_manage_stats("POST", form)

SpecCrud == Init /\ [][CrudNext]_vars

\* A POST to the endpoint by a logged-in session that reports success.
SuccessfulPost(endpoint) ==
    /\ Handles({endpoint})
    /\ LoggedIn
    /\ request'.method = "POST"
    /\ response'.flash = "success"

\* The row a create/edit request targets: the row with the id of the URL, or the
\* row the request inserts.
Target(table, id, fresh) ==
    IF IdGiven(id) /\ get(table, id) # NoRow THEN get(table, id) ELSE fresh

\* The table after the request is the table before it with old replaced by new.
Replaced(before, after, old, new) == new \in after /\ after \ {new} = before \ {old}

\* The form-controlled fields of each kind of row, other than a post's slug, hold
\* what the form submitted: text as submitted (NULL when absent), a checkbox true
\* exactly when it is "on", an integer parsed (the column default when absent or
\* no number), a post's author "Admin" when absent.
SectionAsSubmitted(new, form, keys) ==
    /\ new.title = FormGet(form, keys[1])
    /\ new.content = FormGet(form, keys[2])
    /\ new.image_url = FormGet(form, keys[3])
    /\ Len(keys) = 5 => /\ new.button_text = FormGet(form, keys[4])
                        /\ new.button_link = FormGet(form, keys[5])
PostAsSubmitted(new, form) ==
    /\ \A k \in {"title", "excerpt", "content", "featured_image", "tags", "meta_description"} :
          new[k] = (IF k \in DOMAIN form THEN form[k] ELSE None)
    /\ new.author = (IF "author" \in DOMAIN form THEN form.author ELSE T("Admin"))
    /\ new.category_id = (IF "category_id" \in DOMAIN form THEN int(form.category_id) ELSE NullInt)
    /\ new.read_time = (IF "read_time" \in DOMAIN form /\ IsNumber(form.read_time)
                        THEN int(form.read_time) ELSE 5)
    /\ new.is_published = ("is_published" \in DOMAIN form /\ form.is_published = On)
    /\ new.is_featured = ("is_featured" \in DOMAIN form /\ form.is_featured = On)
TestimonialAsSubmitted(new, form) ==
    /\ \A k \in {"name", "location", "role", "avatar_url", "testimonial", "yield_increase",
                 "water_saved", "income_increase", "video_url"} :
          new[k] = (IF k \in DOMAIN form THEN form[k] ELSE None)
    /\ new.rating = (IF "rating" \in DOMAIN form /\ IsNumber(form.rating)
                     THEN int(form.rating) ELSE 5)
    /\ new.order_index = (IF "order_index" \in DOMAIN form /\ IsNumber(form.order_index)
                          THEN int(form.order_index) ELSE 0)
    /\ new.is_featured = ("is_featured" \in DOMAIN form /\ form.is_featured = On)
    /\ new.is_active = ("is_active" \in DOMAIN form /\ form.is_active = On)
MemberAsSubmitted(new, form) ==
    /\ \A k \in {"name", "position", "bio", "photo_url", "email", "linkedin", "twitter"} :
          new[k] = (IF k \in DOMAIN form THEN form[k] ELSE None)
    /\ new.order_index = (IF "order_index" \in DOMAIN form /\ IsNumber(form.order_index)
                          THEN int(form.order_index) ELSE 0)
    /\ new.is_leadership = ("is_leadership" \in DOMAIN form /\ form.is_leadership = On)
    /\ new.is_active = ("is_active" \in DOMAIN form /\ form.is_active = On)
StatisticAsSubmitted(new, form) ==
    /\ \A k \in {"label", "value", "suffix", "icon"} :
          new[k] = (IF k \in DOMAIN form THEN form[k] ELSE None)
    /\ new.order_index = (IF "order_index" \in DOMAIN form /\ IsNumber(form.order_index)
                          THEN int(form.order_index) ELSE 0)
    /\ new.is_active = ("is_active" \in DOMAIN form /\ form.is_active = On)

\* The fields of each kind of row no form controls, apart from the timestamps
\* the store maintains (updated_at, published_at).
SectionKept(old, new) ==
    \A k \in {"id", "page", "section_name", "video_url", "order_index", "is_active"} :
       new[k] = old[k]
HeroKeys == <<"hero_title", "hero_content", "hero_image", "hero_button_text", "hero_button_link">>
AboutKeys == <<"title", "content", "image_url">>
HeroTarget ==
    LET found == {s \in PageSection : s.page = T("home") /\ s.section_name = T("hero")}
    IN IF found # {} THEN first(found)
       ELSE NewPageSection(NextId(PageSection), T("home"), T("hero"))
AboutTarget ==
    LET section == FormGet(request'.form, "section")
        found == {s \in PageSection : s.page = T("about") /\ s.section_name = section}
    IN IF found # {} THEN first(found)
       ELSE NewPageSection(NextId(PageSection), T("about"), section)
StatTarget ==
    IF Truthy(FormGet(request'.form, "stat_id"))
    THEN get(Statistic, int(request'.form.stat_id))
    ELSE NewStatistic(NextId(Statistic))


\* The store's own timestamp on a saved row: the time of the request, unless the
\* request changed nothing in the row.
Stamped(old, new) == new.updated_at = now \/ new = old

\* The six handlers as C3 (amended) describes them.
HomeSaved ==
    SuccessfulPost("admin_edit_home") =>
       /\ response' = Redirect("admin_edit_home", "success")
       /\ \E new \in PageSection' :
             /\ Replaced(PageSection, PageSection', HeroTarget, new)
             /\ SectionAsSubmitted(new, request'.form, HeroKeys)
             /\ SectionKept(HeroTarget, new)
             /\ Stamped(HeroTarget, new)
AboutSaved ==
    SuccessfulPost("admin_edit_about") =>
       /\ response' = Redirect("admin_edit_about", "success")
       /\ \E new \in PageSection' :
             /\ Replaced(PageSection, PageSection', AboutTarget, new)
             /\ SectionAsSubmitted(new, request'.form, AboutKeys)
             /\ SectionKept(AboutTarget, new)
             /\ new.button_text = AboutTarget.button_text
             /\ new.button_link = AboutTarget.button_link
             /\ Stamped(AboutTarget, new)
BlogSaved ==
    SuccessfulPost("admin_edit_blog") =>
       LET form == request'.form
           old == Target(BlogPost, request'.id, NewBlogPost(NextId(BlogPost)))
       IN /\ response' = Redirect("admin_manage_blog", "success")
          /\ \E new \in BlogPost' :
                /\ Replaced(BlogPost, BlogPost', old, new)
                /\ PostAsSubmitted(new, form)
                /\ new.slug = create_slug(IF "slug" \in DOMAIN form /\ form.slug # Empty
                                          THEN form.slug ELSE form.title)
                /\ new.id = old.id /\ new.views = old.views /\ new.created_at = old.created_at
                /\ new.published_at = (IF new.is_published /\ old.published_at = NullInt
                                       THEN now ELSE old.published_at)
                /\ Stamped(old, new)
TestimonialSaved ==
    SuccessfulPost("admin_edit_testimonial") =>
       LET old == Target(Testimonial, request'.id, NewTestimonial(NextId(Testimonial)))
       IN /\ response' = Redirect("admin_manage_testimonials", "success")
          /\ \E new \in Testimonial' :
                /\ Replaced(Testimonial, Testimonial', old, new)
                /\ TestimonialAsSubmitted(new, request'.form)
                /\ new.id = old.id /\ new.created_at = old.created_at
TeamSaved ==
    SuccessfulPost("admin_edit_team") =>
       LET old == Target(TeamMember, request'.id, NewTeamMember(NextId(TeamMember)))
       IN /\ response' = Redirect("admin_manage_team", "success")
          /\ \E new \in TeamMember' :
                /\ Replaced(TeamMember, TeamMember', old, new)
                /\ MemberAsSubmitted(new, request'.form)
                /\ new.id = old.id /\ new.created_at = old.created_at
StatSaved ==
    SuccessfulPost("admin_manage_stats") =>
       /\ response' = Redirect("admin_manage_stats", "success")
       /\ \E new \in Statistic' :
             /\ Replaced(Statistic, Statistic', StatTarget, new)
             /\ StatisticAsSubmitted(new, request'.form)
             /\ new.id = StatTarget.id

\* C3 (amended): after a successful POST by a logged-in session to an admin
\* create/edit handler, the targeted row holds in every form-controlled field the
\* submitted value as the handler reads it, except that a post's slug is
\* create_slug of the submitted slug (of the title when the slug is empty); no
\* other field of the row changed except updated_at (set to the time of the
\* request when the row changed) and a post's published_at (set to the time of
\* the request when the post is published and had none); the response is the
\* redirect to the handler's list/edit page.
C3_SavedAsSubmittedSlugified ==
    [][HomeSaved /\ AboutSaved /\ BlogSaved /\ TestimonialSaved /\ TeamSaved /\ StatSaved]_vars

\* C3 (as claimed): the targeted row holds every form-controlled field, the slug
\* included, as submitted, and no other field of an existing row changed.
C3_SavedExactlyAsSubmitted ==
    [][/\ HomeSaved /\ AboutSaved /\ TestimonialSaved /\ TeamSaved /\ StatSaved
       /\ SuccessfulPost("admin_edit_home") => \E new \in PageSection' :
             Replaced(PageSection, PageSection', HeroTarget, new)
             /\ (HeroTarget \in PageSection => new.updated_at = HeroTarget.updated_at)
       /\ SuccessfulPost("admin_edit_about") => \E new \in PageSection' :
             Replaced(PageSection, PageSection', AboutTarget, new)
             /\ (AboutTarget \in PageSection => new.updated_at = AboutTarget.updated_at)
       /\ SuccessfulPost("admin_edit_blog") =>
             LET form == request'.form
                 old == Target(BlogPost, request'.id, NewBlogPost(NextId(BlogPost)))
             IN /\ response' = Redirect("admin_manage_blog", "success")
                /\ \E new \in BlogPost' :
                      /\ Replaced(BlogPost, BlogPost', old, new)
                      /\ PostAsSubmitted(new, form)
                      /\ new.slug = FormGet(form, "slug")
                      /\ new.id = old.id /\ new.views = old.views
                      /\ new.created_at = old.created_at
                      /\ old \in BlogPost => /\ new.published_at = old.published_at
                                             /\ new.updated_at = old.updated_at]_vars

\* C3 witness: a logged-in admin has saved changes to an existing post, at a
\* later time than its creation, under a submitted slug that is no slug yet.
C3_Witness ==
    /\ request.endpoint = "admin_edit_blog" /\ request.method = "POST"
    /\ response = Redirect("admin_manage_blog", "success")
    /\ LoggedIn
    /\ request.form = BlogFormB
    /\ \E p \in BlogPost : /\ p.id = request.id
                           /\ p.slug = <<"b", "-", "c">>
                           /\ p.updated_at > p.created_at
                           /\ p.published_at # NullInt /\ ~p.is_published


(***************************************************************************)
(* SpecSearch: the search endpoint over stores of up to MaxSearchPosts     *)
(* posts, as an admin saved them through admin_edit_blog on a seeded       *)
(* store, queried with missing, empty, plain and punctuation queries.      *)
(***************************************************************************)
MaxSearchPosts == 11

\* The decimal text of a number below 100.
DigitChar(d) == CHOOSE c \in Digits : DigitValue(c) = d
Decimal(i) == IF i < 10 THEN <<DigitChar(i)>> ELSE <<DigitChar(i \div 10), DigitChar(i % 10)>>

\* The form the i-th post was saved with: titles a1, B2, c3, a4, ...; every
\* second content holds an underscore; every third post has tags.
SearchForm(i, hidden) ==
    LET letter == CASE i % 3 = 1 -> "a" [] i % 3 = 2 -> "B" [] OTHER -> "c"
        base == [title |-> <<letter>> \o Decimal(i),
                 content |-> IF i % 2 = 0 THEN <<"a", "_", "c">> ELSE <<"b", "c">>,
                 excerpt |-> T("excerpt")]
        tagged == IF i % 3 = 0 THEN base @@ [tags |-> <<"a", "b">>] ELSE base
    IN IF i \in hidden THEN tagged ELSE tagged @@ [is_published |-> On]
SearchPost(i, hidden) == AssignBlogPost(NewBlogPost(i), SearchForm(i, hidden))

SearchQueries ==
    {NoForm, [q |-> Empty], [q |-> <<"a">>], [q |-> <<"B">>], [q |-> <<"1">>],
     [q |-> <<"a", "b">>], [q |-> <<"z">>], [q |-> <<"_">>], [q |-> <<"%">>],
     [q |-> <<"b", "_">>]}

SearchInit ==
    /\ now = 0
    /\ session = EmptySession
    /\ request = NoRequest
    /\ response = NoResponse
    /\ pending = {}
    /\ LET seeded == init_default_data({}, {}, {}, {}, 0)
       IN /\ User = seeded.User
          /\ Settings = seeded.Settings
          /\ BlogCategory = seeded.BlogCategory
          /\ Statistic = seeded.Statistic
    /\ PageSection = {} /\ Testimonial = {} /\ TeamMember = {} /\ Feature = {}
    /\ \E n \in 0 .. MaxSearchPosts, hidden \in {{}, {2}, {1, 3}} :
          BlogPost = {SearchPost(i, hidden) : i \in 1 .. n}

SearchNext == \E args \in SearchQueries : api_blog_search(args)

SpecSearch == SearchInit /\ [][SearchNext]_vars

\* text holds q as a run of consecutive characters, letters compared without case.
ContainsText(text, q) ==
    /\ text # None
    /\ \E i \in 1 .. (Len(text) - Len(q) + 1) :
          \A j \in 1 .. Len(q) : LowerChar(text[i + j - 1]) = LowerChar(q[j])

\* C4: the search answers [] when q is missing or empty; otherwise at most 10
\* entries, each with exactly the keys id, title, slug, excerpt, url, taken from
\* a stored post whose title, content or tags contains q.
C4_SearchReturnsPostsContainingQ ==
    request.endpoint = "api_blog_search" =>
       LET q == IF "q" \in DOMAIN request.form THEN request.form.q ELSE Empty
       IN /\ q = Empty => response.json = {}
          /\ Cardinality(response.json) <= 10
          /\ \A e \in response.json :
                /\ DOMAIN e = {"id", "title", "slug", "excerpt", "url"}
                /\ \E p \in BlogPost :
                      /\ e.id = p.id /\ e.title = p.title /\ e.slug = p.slug
                      /\ e.excerpt = p.excerpt
                      /\ e.url = <<"/", "b", "l", "o", "g", "/">> \o p.slug
                      /\ \/ ContainsText(p.title, q)
                         \/ ContainsText(p.content, q)
                         \/ ContainsText(p.tags, q)

(***************************************************************************)
(* Deletes.                                                                *)
(***************************************************************************)
\* A logged-in POST to the delete endpoint with the id of a stored row, answered
\* with the success flash.
SuccessfulDelete(endpoint, table) ==
    /\ Handles({endpoint})
    /\ LoggedIn
    /\ request'.id \in Ids(table)
    /\ response'.flash = "success"

\* C11: a successful delete of an existing id removes exactly the one row with
\* that id from the entity's table; every other row of that table and every row
\* of every other table is unchanged.
C11_DeleteRemovesExactlyOneRow ==
    [][/\ SuccessfulDelete("admin_delete_blog", BlogPost) =>
             /\ BlogPost' = {r \in BlogPost : r.id # request'.id}
             /\ Cardinality(BlogPost') = Cardinality(BlogPost) - 1
             /\ UNCHANGED <<User, PageSection, BlogCategory, Testimonial, TeamMember,
                            Statistic, Settings, Feature>>
       /\ SuccessfulDelete("admin_delete_testimonial", Testimonial) =>
             /\ Testimonial' = {r \in Testimonial : r.id # request'.id}
             /\ Cardinality(Testimonial') = Cardinality(Testimonial) - 1
             /\ UNCHANGED <<User, PageSection, BlogCategory, BlogPost, TeamMember,
                            Statistic, Settings, Feature>>
       /\ SuccessfulDelete("admin_delete_team", TeamMember) =>
             /\ TeamMember' = {r \in TeamMember : r.id # request'.id}
             /\ Cardinality(TeamMember') = Cardinality(TeamMember) - 1
             /\ UNCHANGED <<User, PageSection, BlogCategory, BlogPost, Testimonial,
                            Statistic, Settings, Feature>>
       /\ SuccessfulDelete("admin_delete_stat", Statistic) =>
             /\ Statistic' = {r \in Statistic : r.id # request'.id}
             /\ Cardinality(Statistic') = Cardinality(Statistic) - 1
             /\ UNCHANGED <<User, PageSection, BlogCategory, BlogPost, Testimonial,
                            TeamMember, Settings, Feature>>]_vars

\* C11 witness: a post of a seeded category has been deleted from a store that
\* holds other rows: the category and the other statistics are still there.
C11_Witness ==
    /\ request.endpoint = "admin_delete_blog"
    /\ response = Redirect("admin_manage_blog", "success")
    /\ request.id \notin Ids(BlogPost)
    /\ Cardinality(BlogCategory) = Len(default_categories)
    /\ Cardinality(Statistic) > 1

(***************************************************************************)
(* SpecSettings: the settings store under its two helper functions, called *)
(* by the settings page and directly, with keys that have a row and keys   *)
(* that have none.                                                         *)
(***************************************************************************)
SettingKeys == {"site_title", "github_url", "motto"}
SettingValues == {T("x"), Empty}
SettingDefaults == {Empty, T("fallback")}

\* A call of update_setting(key, value).
call_update_setting(key, value) ==
    /\ Settings' = update_setting(Settings, key, value)
    /\ request' = [Request("update_setting", "", NullInt, None, NoForm)
                     EXCEPT !.form = [key |-> key, value |-> value]]
    /\ response' = NoResponse
    /\ UNCHANGED <<User, PageSection, BlogCategory, BlogPost, Testimonial, TeamMember,
                   Statistic, Feature, session, now, pending>>

SettingsNext ==
    \/ init_db
    \/ Tick
    \/ admin_login("POST", GoodLogin)
    \/ \E form \in SettingsForms : admin_settings("POST", form, 0)
    \/ \E key \in SettingKeys, value \in SettingValues : call_update_setting(key, value)

SpecSettings == Init /\ [][SettingsNext]_vars

HasSetting(settings, key) == \E r \in settings : r.key = key

\* C12: the settings store is a key/value map: at most one row per key; a key
\* without row reads as the supplied default; after update_setting(k, v) the key
\* k reads as v, an existing key got no second row, and every other key reads as
\* before; after a successful settings POST each of the ten keys reads as the
\* form submitted it.
C12_SettingsIsKeyValueMap ==
    /\ [](\A r1, r2 \in Settings : r1.key = r2.key => r1 = r2)
    /\ [](\A k \in SettingKeys, d \in SettingDefaults :
             ~HasSetting(Settings, k) => get_setting(Settings, k, d) = d)
    /\ [][(request'.endpoint = "update_setting" /\ now' = now) =>
             LET k == request'.form.key
                 v == request'.form.value
             IN /\ \A d \in SettingDefaults : get_setting(Settings', k, d) = v
                /\ HasSetting(Settings, k) => Ids(Settings') = Ids(Settings)
                /\ Cardinality(Settings') = Cardinality(Settings)
                                            + (IF HasSetting(Settings, k) THEN 0 ELSE 1)
                /\ \A k2 \in (SettingKeys \cup {r.key : r \in Settings}) \ {k},
                      d \in SettingDefaults :
                      get_setting(Settings', k2, d) = get_setting(Settings, k2, d)]_vars
    /\ [][(Handles({"admin_settings"}) /\ response'.flash = "success") =>
             \A i \in DOMAIN settings_keys, d \in SettingDefaults :
                get_setting(Settings', settings_keys[i], d)
                  = FormGet(request'.form, settings_keys[i])]_vars

\* C12 witness: update_setting has changed the value of a seeded key in a store
\* that also holds a key the seed does not know.
C12_Witness ==
    /\ request.endpoint = "update_setting"
    /\ request.form = [key |-> "site_title", value |-> T("x")]
    /\ get_setting(Settings, "site_title", Empty) = T("x")
    /\ HasSetting(Settings, "motto")
    /\ Cardinality(Settings) = Len(default_settings) + 1

(***************************************************************************)
(* SpecSlug: blog saves whose title or slug field is any text of up to     *)
(* MaxSlugLen characters over letters of both cases, whitespace, hyphen,   *)
(* underscore and punctuation, by the admin who has just logged in to the  *)
(* seeded store; a post is created, deleted, created anew.                 *)
(***************************************************************************)
MaxSlugLen == 4

SlugAlphabet == {"A", "b", " ", "-", "_", "!"}
SlugTexts == UNION {[1 .. k -> SlugAlphabet] : k \in 0 .. MaxSlugLen}
SlugForms ==
    {[title |-> t, slug |-> Empty, content |-> <<"c">>] : t \in SlugTexts}
    \cup {[title |-> <<"b">>, slug |-> s, content |-> <<"c">>] : s \in SlugTexts}

SlugInit ==
    /\ now = 0
    /\ LET seeded == init_default_data({}, {}, {}, {}, 0)
       IN /\ User = seeded.User
          /\ Settings = seeded.Settings
          /\ BlogCategory = seeded.BlogCategory
          /\ Statistic = seeded.Statistic
    /\ PageSection = {} /\ BlogPost = {} /\ Testimonial = {} /\ TeamMember = {}
    /\ Feature = {}
    /\ session = [user_id |-> 1, username |-> T("admin")]
    /\ request = Request("admin_login", "POST", NullInt, None, GoodLogin)
    /\ response = Redirect("admin_dashboard", "success")
    /\ pending = {}

SlugNext ==
    \/ BlogPost = {} /\ \E form \in SlugForms : admin_edit_blog(NullInt, "POST", form, "none")
    \/ admin_delete_blog(1)

SpecSlug == SlugInit /\ [][SlugNext]_vars

NoTwoHyphens(text) == \A i \in 1 .. (Len(text) - 1) : ~(text[i] = "-" /\ text[i + 1] = "-")
SlugOver(text, chars) == \A i \in DOMAIN text : text[i] \in chars

\* The post a successful blog save stored, and the text its slug is made from.
SavedPosts ==
    IF request.endpoint = "admin_edit_blog" /\ response.flash = "success"
    THEN {p \in BlogPost : p.title = request.form.title}
    ELSE {}
SubmittedSlugSource ==
    IF request.form.slug # Empty THEN request.form.slug ELSE request.form.title

BlogFormSameSlug == [title |-> <<"a", "-", "b">>, content |-> <<"c">>]

UniqueNext ==
    \/ init_db
    \/ admin_login("POST", GoodLogin)
    \/ \E id \in {NullInt, 1, 2}, form \in {BlogFormA, BlogFormB, BlogFormSameSlug} :
          admin_edit_blog(id, "POST", form, "none")
    \/ admin_delete_blog(1)
    \/ \E id \in {1, 2} : admin_delete_stat(id)
    \/ \E form \in SettingsForms : admin_settings("POST", form, 0)

SpecUnique == Init /\ [][UniqueNext]_vars

\* No two rows of the table agree on the column.
UniqueIn(table, column) == \A r1, r2 \in table : r1[column] = r2[column] => r1 = r2

\* The step is a logged-in blog save whose slug is that of a different post.
SavesTakenSlug ==
    /\ Handles({"admin_edit_blog"})
    /\ LoggedIn
    /\ request'.method = "POST"
    /\ "title" \in DOMAIN request'.form
    /\ \E p \in BlogPost :
          /\ p.id # request'.id
          /\ p.slug = create_slug(IF "slug" \in DOMAIN request'.form
                                     /\ request'.form.slug # Empty
                                  THEN request'.form.slug ELSE request'.form.title)

\* C14: in every reachable state no two posts share a slug, no two categories a
\* name or a slug, no two settings a key, no two users a username or an email;
\* a blog save whose slug is that of a different post is rejected and changes no
\* table.
C14_UniquenessHolds ==
    /\ [](/\ UniqueIn(BlogPost, "slug") /\ UniqueIn(BlogPost, "id")
          /\ UniqueIn(BlogCategory, "name") /\ UniqueIn(BlogCategory, "slug")
          /\ UniqueIn(Settings, "key")
          /\ UniqueIn(User, "username") /\ UniqueIn(User, "email"))
    /\ [][SavesTakenSlug => (tables' = tables /\ response'.flash = "danger"
                             /\ response'.status = 200)]_vars

\* C14 witness: with two posts stored, an edit of the second that submits a
\* title slugifying to the first post's slug has been rejected.
C14_Witness ==
    /\ request.endpoint = "admin_edit_blog" /\ request.id = 2
    /\ request.form = BlogFormSameSlug
    /\ response.flash = "danger"
    /\ \E p1, p2 \in BlogPost :
          /\ p1.id = 1 /\ p1.slug = <<"a", "-", "b">>
          /\ p2.id = 2 /\ p2.slug = <<"b", "-", "c">>

(***************************************************************************)
(* Session lifecycle.                                                      *)
(***************************************************************************)
\* The login form names a stored user and carries the password that user's hash
\* was made from.
CredentialsOf(form, u) ==
    /\ "username" \in DOMAIN form /\ "password" \in DOMAIN form
    /\ u.username = form.username
    /\ u.password_hash = generate_password_hash(form.password)

\* C15: user_id enters a session only by a login POST whose username names a
\* stored user and whose password passes that user's hash check; a failed login
\* leaves the session without user_id; logout clears the session, and an admin
\* request from a session without user_id is redirected to the login page and
\* leaves the session as it is (so until a later successful login); a login
\* request from a logged-in session is redirected to the dashboard and leaves
\* the session as it is, whatever credentials it carries.
C15_SessionLifecycle ==
    /\ [][(~LoggedIn /\ "user_id" \in DOMAIN session') =>
             /\ Handles({"admin_login"})
             /\ request'.method = "POST"
             /\ \E u \in User : /\ CredentialsOf(request'.form, u)
                                /\ session'.user_id = u.id]_vars
    /\ [][(Handles({"admin_login"}) /\ ~LoggedIn
             /\ ~(request'.method = "POST" /\ \E u \in User : CredentialsOf(request'.form, u)))
            => (session' = session /\ response'.status = 200)]_vars
    /\ [][Handles({"admin_logout"}) =>
             (session' = EmptySession /\ response' = Redirect("admin_login", "info"))]_vars
    /\ [][(Handles(AdminEndpoints) /\ ~LoggedIn) =>
             (response' = LoginRedirect /\ session' = session)]_vars
    /\ [][(Handles({"admin_login"}) /\ LoggedIn) =>
             (response' = Redirect("admin_dashboard", "") /\ session' = session)]_vars

\* C15 witness: after an admin saved a post and logged out, a login with a wrong
\* password has failed: the session holds no user_id.
C15_Witness ==
    /\ BlogPost # {}
    /\ request = Request("admin_login", "POST", NullInt, None, BadLogin)
    /\ response.flash = "danger"
    /\ session = EmptySession

(***************************************************************************)
(* SpecExposure: the public routes over stores in which an admin published *)
(* and unpublished posts and activated and deactivated testimonials, team  *)
(* members and statistics.                                                 *)
(***************************************************************************)
ExposureNext ==
    \/ init_db
    \/ admin_login("POST", GoodLogin)
    \/ \E id \in {NullInt, 1}, form \in {BlogFormA, BlogFormB} :
          admin_edit_blog(id, "POST", form, "none")
    \/ \E id \in {NullInt, 1}, form \in {TestimonialFormA, TestimonialFormB} :
          admin_edit_testimonial(id, "POST", form, "none")
    \/ \E form \in {TeamFormA, TeamFormB} : admin_edit_team(NullInt, "POST", form, "none")
    \/ admin_manage_stats("POST", StatFormEdit1)
    \/ admin_delete_stat(2)
    \/ admin_edit_home("POST", HomeFormB)
    \/ index
    \/ about
    \/ \E args \in {NoForm, [category |-> T("technology")]} : blog(args)
    \/ \E slug \in {<<"a", "-", "b">>, <<"b", "-", "c">>, <<"c">>} : blog_detail(slug)
    \/ testimonials
    \/ contact
    \/ \E args \in {[q |-> <<"b">>], [q |-> <<"c">>]} : api_blog_search(args)

SpecExposure == Init /\ [][ExposureNext]_vars

\* The rows of the table the response shows.
Shown(name, table) == {r \in table : <<name, r.id>> \in response.context}

\* C16: the blog list, the blog detail route and the search return published
\* posts only; the home, about and testimonials pages return active rows only;
\* blog detail of a slug no published post has is answered 404 and changes no
\* table (so no post's views).
C16_OnlyPublishedAndActiveShown ==
    /\ [](/\ request.endpoint \in {"blog", "blog_detail"} =>
               \A p \in Shown("BlogPost", BlogPost) : p.is_published
          /\ (request.endpoint = "blog_detail" /\ response.status = 200) =>
               \E p \in Shown("BlogPost", BlogPost) : p.slug = request.slug /\ p.is_published
          /\ request.endpoint = "api_blog_search" =>
               \A e \in response.json : \E p \in BlogPost : p.id = e.id /\ p.is_published
          /\ request.endpoint \in {"index", "about", "testimonials"} =>
               /\ \A r \in Shown("PageSection", PageSection) : r.is_active
               /\ \A r \in Shown("Feature", Feature) : r.is_active
               /\ \A r \in Shown("Statistic", Statistic) : r.is_active
               /\ \A r \in Shown("TeamMember", TeamMember) : r.is_active
               /\ \A r \in Shown("Testimonial", Testimonial) : r.is_active)
    /\ [][(Handles({"blog_detail"})
             /\ ~\E p \in BlogPost : p.slug = request'.slug /\ p.is_published)
            => (response'.status = 404 /\ tables' = tables)]_vars

\* C16 witness: the blog list was served from a store that holds a published and
\* an unpublished post and a deactivated statistic.
C16_Witness ==
    /\ request.endpoint = "blog"
    /\ Shown("BlogPost", BlogPost) # {}
    /\ \E p \in BlogPost : ~p.is_published /\ p.published_at = NullInt
    /\ \E s \in Statistic : ~s.is_active

(***************************************************************************)
(* published_at.                                                           *)
(***************************************************************************)
\* C17: every published post has a published_at; a published_at, once set, is
\* never changed by a later step (unpublishing and republishing included); a
\* published_at is set only by a blog save that stores the post as published,
\* to the time of that save, so a post never saved as published has none.
C17_PublishedAtSetOnce ==
    /\ [](\A p \in BlogPost : p.is_published => p.published_at # NullInt)
    /\ [][\A p \in BlogPost, q \in BlogPost' :
             (p.id = q.id /\ p.published_at # NullInt) => q.published_at = p.published_at]_vars
    /\ [][\A q \in BlogPost' :
             (/\ q.published_at # NullInt
              /\ \A p \in BlogPost : p.id = q.id => p.published_at = NullInt)
             => /\ Handles({"admin_edit_blog"})
                /\ request'.method = "POST"
                /\ Checked(request'.form, "is_published")
                /\ q.is_published
                /\ q.published_at = now]_vars

\* C17 witness: a post published at one time was saved unpublished at a later
\* time and keeps its published_at.
C17_Witness ==
    /\ request.endpoint = "admin_edit_blog" /\ response.flash = "success"
    /\ \E p \in BlogPost : /\ p.id = request.id
                           /\ ~p.is_published
                           /\ p.published_at # NullInt
                           /\ p.updated_at > p.published_at

(***************************************************************************)
(* Concurrent requests.  The server handles requests in threads, each with *)
(* its own database session: a handler's query loads rows into the        *)
(* session, its commit writes the attributes it changed.  Between the two  *)
(* another thread may run.  A handler is split here at that point: _begin  *)
(* runs up to and including its query, _commit from there to its return.   *)
(***************************************************************************)
MaxThreads == 2
Threads == 1 .. MaxThreads

Busy(thread) == \E r \in pending : r.thread = thread
InProgress(thread, endpoint, id, slug, form, row) ==
    [thread |-> thread, endpoint |-> endpoint, id |-> id, slug |-> slug, form |-> form,
     row |-> row]

\* The UPDATE a commit emits for a loaded row: the columns whose attribute
\* differs from the loaded value are written, every other column keeps what
\* the table holds now; updated_at takes its onupdate value.
UpdateChanged(current, loaded, assigned, forced) ==
    LET changed == {c \in DOMAIN assigned : assigned[c] # loaded[c]} \cup forced
    IN IF changed = {} THEN current
       ELSE [c \in DOMAIN current |->
               IF c \in changed THEN assigned[c]
               ELSE IF c = "updated_at" THEN now
               ELSE current[c]]

\* blog_detail(slug) up to first_or_404(): the published post is loaded (or the
\* request ends with 404).
blog_detail_begin(thread, slug) ==
    LET post == first({p \in BlogPost : p.slug = slug /\ p.is_published})
    IN /\ ~Busy(thread)
       /\ IF post = NoRow
          THEN /\ Respond(Request("blog_detail", "GET", NullInt, slug, NoForm),
                          Render("public/404.html", 404, "", {}))
               /\ UNCHANGED <<tables, session, now>>
          ELSE /\ pending' = pending
                             \cup {InProgress(thread, "blog_detail", NullInt, slug, NoForm, post)}
               /\ UNCHANGED <<tables, session, now, request, response>>

\* blog_detail from post.views += 1 on: views of the loaded post plus one is
\* written to the row with its id; if that row is gone the UPDATE matches no row,
\* which raises, and the handler aborts with 404.
blog_detail_commit(thread) ==
    \E r \in pending :
       /\ r.thread = thread /\ r.endpoint = "blog_detail"
       /\ pending' = pending \ {r}
       /\ request' = Request("blog_detail", "GET", NullInt, r.slug, NoForm)
       /\ LET current == get(BlogPost, r.row.id)
              viewed == UpdateChanged(current, r.row, IncrementViews(r.row, now), {})
          IN IF current = NoRow
             THEN /\ response' = Render("public/404.html", 404, "", {})
                  /\ UNCHANGED <<tables, session, now>>
             ELSE /\ r.row.views < MaxViews
                  /\ BlogPost' = (BlogPost \ {current}) \cup {viewed}
                  /\ response' = Render("public/blog_detail.html", 200, "",
                                        Ctx("BlogPost", {viewed}))
                  /\ UNCHANGED <<User, PageSection, BlogCategory, Testimonial, TeamMember,
                                 Statistic, Settings, Feature, session, now>>

\* admin_edit_blog(id) of a stored post up to BlogPost.query.get(id).
admin_edit_blog_begin(thread, id, form) ==
    /\ ~Busy(thread)
    /\ login_required(session)
    /\ get(BlogPost, id) # NoRow
    /\ pending' = pending
                  \cup {InProgress(thread, "admin_edit_blog", id, None, form, get(BlogPost, id))}
    /\ UNCHANGED <<tables, session, now, request, response>>

\* admin_edit_blog from the assignments on: the changed attributes are written
\* to the row (category_id is submitted as text and so always counts as
\* changed); a constraint violation or a vanished row is rolled back and flashed.
admin_edit_blog_commit(thread) ==
    \E r \in pending :
       /\ r.thread = thread /\ r.endpoint = "admin_edit_blog"
       /\ pending' = pending \ {r}
       /\ request' = Request("admin_edit_blog", "POST", r.id, None, r.form)
       /\ LET current == get(BlogPost, r.row.id)
              assigned == AssignBlogPost(r.row, r.form)
              saved == UpdateChanged(current, r.row, assigned,
                                     IF "category_id" \in DOMAIN r.form
                                     THEN {"category_id"} ELSE {})
              ok == /\ current # NoRow
                    /\ SlugSource(r.form) # None
                    /\ BlogPostConstraints(saved, BlogPost \ {current})
          IN IF ok
             THEN /\ BlogPost' = (BlogPost \ {current}) \cup {saved}
                  /\ response' = Redirect("admin_manage_blog", "success")
                  /\ UNCHANGED <<User, PageSection, BlogCategory, Testimonial, TeamMember,
                                 Statistic, Settings, Feature, session, now>>
             ELSE /\ response' = Render("admin/edit_blog.html", 200, "danger",
                                        Ctx("BlogPost", {current})
                                        \cup Ctx("BlogCategory", BlogCategory))
                  /\ UNCHANGED <<tables, session, now>>

(***************************************************************************)
(* SpecViews: readers and an admin editor of one post, in threads.         *)
(***************************************************************************)
ViewsNext ==
    \/ init_db
    \/ Tick
    \/ admin_login("POST", GoodLogin)
    \/ admin_edit_blog(NullInt, "POST", BlogFormA, "none")
    \/ admin_delete_blog(1)
    \/ \E thread \in Threads : blog_detail_begin(thread, <<"a", "-", "b">>)
    \/ \E thread \in Threads : blog_detail_commit(thread)
    \/ \E thread \in Threads, form \in {BlogFormA, BlogFormB} :
          admin_edit_blog_begin(thread, 1, form)
    \/ \E thread \in Threads : admin_edit_blog_commit(thread)

SpecViews == Init /\ [][ViewsNext]_vars

\* The requests that return in the step.
Returning(endpoint) == {r \in pending \ pending' : r.endpoint = endpoint}

\* C18: every blog-detail request for a published post that completes
\* successfully, however it interleaves with other requests, leaves the post's
\* views one higher than they were when it completed (so n of them add n); views
\* never decrease; an admin edit of the post does not change its views.
C18_EveryViewCounted ==
    /\ [][\A r \in Returning("blog_detail") :
             response'.status = 200 =>
                \E p \in BlogPost, q \in BlogPost' :
                   p.id = r.row.id /\ q.id = p.id /\ q.views = p.views + 1]_vars
    /\ [][\A p \in BlogPost, q \in BlogPost' : p.id = q.id => q.views >= p.views]_vars
    /\ [][(Returning("admin_edit_blog") # {}
           \/ (request'.endpoint = "admin_edit_blog" /\ pending' = pending))
            => \A p \in BlogPost, q \in BlogPost' : p.id = q.id => q.views = p.views]_vars


\* admin_edit_home() POST up to the query for the hero section.
admin_edit_home_begin(thread, form) ==
    /\ ~Busy(thread)
    /\ login_required(session)
    /\ pending' = pending
                  \cup {InProgress(thread, "admin_edit_home", NullInt, None, form,
                                   first({s \in PageSection :
                                            s.page = T("home") /\ s.section_name = T("hero")}))}
    /\ UNCHANGED <<tables, session, now, request, response>>

\* admin_edit_home() POST from `if not hero` on: a request whose query found no
\* hero inserts one, whatever the table holds by now; one that found a hero
\* writes the attributes it changed.
admin_edit_home_commit(thread) ==
    \E r \in pending :
       /\ r.thread = thread /\ r.endpoint = "admin_edit_home"
       /\ pending' = pending \ {r}
       /\ request' = Request("admin_edit_home", "POST", NullInt, None, r.form)
       /\ LET current == get(PageSection, r.row.id)
              hero == IF r.row = NoRow
                      THEN NewPageSection(NextId(PageSection), T("home"), T("hero"))
                      ELSE r.row
              assigned == [hero EXCEPT !.title = FormGet(r.form, "hero_title"),
                                       !.content = FormGet(r.form, "hero_content"),
                                       !.image_url = FormGet(r.form, "hero_image"),
                                       !.button_text = FormGet(r.form, "hero_button_text"),
                                       !.button_link = FormGet(r.form, "hero_button_link")]
          IN /\ PageSection' = (PageSection \ {current})
                               \cup {IF r.row = NoRow THEN assigned
                                     ELSE UpdateChanged(current, r.row, assigned, {})}
             /\ response' = Redirect("admin_edit_home", "success")
             /\ UNCHANGED <<User, BlogCategory, BlogPost, Testimonial, TeamMember, Statistic,
                            Settings, Feature, session, now>>

\* admin_edit_about() POST naming a section, up to the query for that section.
admin_edit_about_begin(thread, form) ==
    /\ ~Busy(thread)
    /\ login_required(session)
    /\ FormGet(form, "section") # None
    /\ pending' = pending
                  \cup {InProgress(thread, "admin_edit_about", NullInt, None, form,
                                   first({s \in PageSection :
                                            /\ s.page = T("about")
                                            /\ s.section_name = FormGet(form, "section")}))}
    /\ UNCHANGED <<tables, session, now, request, response>>

\* admin_edit_about() POST from `if not page_section` on.
admin_edit_about_commit(thread) ==
    \E r \in pending :
       /\ r.thread = thread /\ r.endpoint = "admin_edit_about"
       /\ pending' = pending \ {r}
       /\ request' = Request("admin_edit_about", "POST", NullInt, None, r.form)
       /\ LET current == get(PageSection, r.row.id)
              page_section == IF r.row = NoRow
                              THEN NewPageSection(NextId(PageSection), T("about"),
                                                  FormGet(r.form, "section"))
                              ELSE r.row
              assigned == [page_section EXCEPT !.title = FormGet(r.form, "title"),
                                               !.content = FormGet(r.form, "content"),
                                               !.image_url = FormGet(r.form, "image_url")]
          IN /\ PageSection' = (PageSection \ {current})
                               \cup {IF r.row = NoRow THEN assigned
                                     ELSE UpdateChanged(current, r.row, assigned, {})}
             /\ response' = Redirect("admin_edit_about", "success")
             /\ UNCHANGED <<User, BlogCategory, BlogPost, Testimonial, TeamMember, Statistic,
                            Settings, Feature, session, now>>

(***************************************************************************)
(* SpecSections: admin home and about POSTs, in threads.  No route deletes *)
(* a page section, so a loaded section is still stored at the commit, and  *)
(* a section is inserted at most once per thread: the table stays finite.  *)
(***************************************************************************)
SectionsNext ==
    \/ init_db
    \/ admin_login("POST", GoodLogin)
    \/ \E thread \in Threads, form \in HomeForms : admin_edit_home_begin(thread, form)
    \/ \E thread \in Threads : admin_edit_home_commit(thread)
    \/ \E thread \in Threads, form \in {AboutFormStory, AboutFormMission} :
          admin_edit_about_begin(thread, form)
    \/ \E thread \in Threads : admin_edit_about_commit(thread)

SpecSections == Init /\ [][SectionsNext]_vars

\* The PageSection rows of a page with a section name.
SectionsNamed(page, section_name) ==
    {s \in PageSection : s.page = page /\ s.section_name = section_name}

\* C19: after any sequence of admin home and about POSTs, concurrent ones
\* included, the store holds at most one hero section of the home page and at
\* most one section of the about page for each section name submitted.
C19_SingletonSectionsSingle ==
    /\ Cardinality(SectionsNamed(T("home"), T("hero"))) <= 1
    /\ \A form \in {AboutFormStory, AboutFormMission} :
          Cardinality(SectionsNamed(T("about"), FormGet(form, "section"))) <= 1


(***************************************************************************)
(* SpecMissing: the three create/edit handlers POSTed by a logged-in       *)
(* browser under the create URL, under ids of stored rows and under ids    *)
(* (0 included) of no row, with complete and with incomplete forms; rows   *)
(* are deleted in between.                                                 *)
(***************************************************************************)
MissingNext ==
    \/ init_db
    \/ admin_login("POST", GoodLogin)
    \/ \E id \in EditIds, form \in {BlogFormA, BlogFormB, BlogFormNoTitle} :
          admin_edit_blog(id, "POST", form, "none")
    \/ \E id \in EditIds, form \in {TestimonialFormA, TestimonialFormNoName} :
          admin_edit_testimonial(id, "POST", form, "none")
    \/ \E id \in EditIds, form \in {TeamFormA, TeamFormNoPosition} :
          admin_edit_team(id, "POST", form, "none")
    \/ admin_delete_blog(1)
    \/ admin_delete_team(1)
    \/ \E id \in RowIds : admin_delete_stat(id)

SpecMissing == Init /\ [][MissingNext]_vars

\* The step is a POST by a logged-in session to the edit URL of the endpoint
\* with an id that no row of the table has.
MissingIdPost(endpoint, table) ==
    /\ Handles({endpoint})
    /\ LoggedIn
    /\ request'.method = "POST"
    /\ request'.id # NullInt
    /\ request'.id \notin Ids(table)

\* The step leaves every stored row as it is.
KeepsEveryRow ==
    /\ User \subseteq User' /\ PageSection \subseteq PageSection'
    /\ BlogCategory \subseteq BlogCategory' /\ BlogPost \subseteq BlogPost'
    /\ Testimonial \subseteq Testimonial' /\ TeamMember \subseteq TeamMember'
    /\ Statistic \subseteq Statistic' /\ Settings \subseteq Settings'
    /\ Feature \subseteq Feature'

\* The step adds exactly one row to the table, under an id no row had, larger
\* than every id in use.
InsertsOne(table, table2) ==
    /\ table \subseteq table2
    /\ Cardinality(table2 \ table) = 1
    /\ \A new \in table2 \ table : new.id > 0 /\ \A r \in table : new.id > r.id

\* The submitted fields pass the table's constraints: the required fields are
\* submitted, and the slug made of a post's submitted slug (its title when that
\* is empty) is no stored post's slug.
PostAcceptable(form) ==
    /\ "title" \in DOMAIN form /\ "content" \in DOMAIN form
    /\ \A p \in BlogPost :
          p.slug # create_slug(IF "slug" \in DOMAIN form /\ form.slug # Empty
                               THEN form.slug ELSE form.title)
TestimonialAcceptable(form) == "name" \in DOMAIN form /\ "testimonial" \in DOMAIN form
MemberAcceptable(form) == "name" \in DOMAIN form /\ "position" \in DOMAIN form

\* What a request with an id of no row does with acceptable fields (it inserts
\* one row and redirects to the list) and with others (it changes nothing and
\* shows the form again with the error).
CreatesOrRejects(acceptable, table, table2, list, form_template) ==
    /\ KeepsEveryRow
    /\ response'.status \notin {404, 500}
    /\ IF acceptable
       THEN /\ response' = Redirect(list, "success")
            /\ InsertsOne(table, table2)
       ELSE /\ response'.template = form_template /\ response'.flash = "danger"
            /\ table2 = table

\* C20 (amended): a POST by a logged-in session to a blog, testimonial or team
\* edit route with an id that matches no existing row (id 0 included) is handled
\* as a creation: when the submitted fields pass the table's constraints it
\* inserts one new row holding the submitted fields (a post's slug slugified)
\* under a store-assigned id and redirects to the list; otherwise it inserts
\* nothing and shows the form again with the error.  It never answers 404 and
\* modifies or removes no existing row.
C20_MissingIdHandledAsCreate ==
    /\ [][MissingIdPost("admin_edit_blog", BlogPost) =>
             /\ CreatesOrRejects(PostAcceptable(request'.form), BlogPost, BlogPost',
                                 "admin_manage_blog", "admin/edit_blog.html")
             /\ \A new \in BlogPost' \ BlogPost :
                   /\ PostAsSubmitted(new, request'.form)
                   /\ new.slug = create_slug(IF "slug" \in DOMAIN request'.form
                                                /\ request'.form.slug # Empty
                                             THEN request'.form.slug
                                             ELSE request'.form.title)]_vars
    /\ [][MissingIdPost("admin_edit_testimonial", Testimonial) =>
             /\ CreatesOrRejects(TestimonialAcceptable(request'.form), Testimonial,
                                 Testimonial', "admin_manage_testimonials",
                                 "admin/edit_testimonial.html")
             /\ \A new \in Testimonial' \ Testimonial :
                   TestimonialAsSubmitted(new, request'.form)]_vars
    /\ [][MissingIdPost("admin_edit_team", TeamMember) =>
             /\ CreatesOrRejects(MemberAcceptable(request'.form), TeamMember, TeamMember',
                                 "admin_manage_team", "admin/edit_team.html")
             /\ \A new \in TeamMember' \ TeamMember :
                   MemberAsSubmitted(new, request'.form)]_vars

\* C20 (as claimed): every such POST inserts a new row under a store-assigned id
\* and modifies no existing row.
C20_MissingIdAlwaysInserts ==
    /\ [][MissingIdPost("admin_edit_blog", BlogPost) =>
             KeepsEveryRow /\ InsertsOne(BlogPost, BlogPost')]_vars
    /\ [][MissingIdPost("admin_edit_testimonial", Testimonial) =>
             KeepsEveryRow /\ InsertsOne(Testimonial, Testimonial')]_vars
    /\ [][MissingIdPost("admin_edit_team", TeamMember) =>
             KeepsEveryRow /\ InsertsOne(TeamMember, TeamMember')]_vars

\* C20 witness: a logged-in admin POSTed a complete form to the edit URL of
\* post 2 while only post 1 was stored; the post was inserted as post 2 and
\* post 1 is still there.
C20_Witness ==
    /\ request.endpoint = "admin_edit_blog" /\ request.method = "POST"
    /\ request.id = 2 /\ request.form = BlogFormB
    /\ response = Redirect("admin_manage_blog", "success")
    /\ \E p \in BlogPost, q \in BlogPost :
          /\ p.id = 1 /\ p.title = BlogFormA.title
          /\ q.id = 2 /\ q.title = BlogFormB.title /\ q.updated_at = q.created_at

====
